---- MODULE Spec2Model ----
(***************************************************************************)
(* Model of the matcher of the ten-week goal application                   *)
(* (src/ethica/progress_matching.py), of its aggregator                    *)
(* (src/python/ethica/progress_aggregation.py), of its inference service   *)
(* (src/python/ethica/inference_service.py) and of its relationship store  *)
(* (src/rhetorica/progress_storage.py) over the entities of src/categoriae *)
(* and src/python/categoriae (Action, Goal, SmartGoal, Milestone,          *)
(* ActionGoalRelationship).                                                *)
(*                                                                         *)
(* Python values are represented as follows.                               *)
(*   str            a sequence of one-character strings                    *)
(*   Optional[x]    None is <<>>, a present value x is <<x>>               *)
(*   datetime       a natural number (a point on the time line)            *)
(*   float amounts  whole numbers; confidences in hundredths               *)
(*   float percent  an IEEE 754 double: sign, 53 binary digits, exponent,  *)
(*                  with division, multiplication and addition rounded to  *)
(*                  nearest, ties to even                                  *)
(*   dict           a sequence of <<key, value>> pairs with distinct keys, *)
(*                  in insertion order                                     *)
(*   object refs    a match holds the index of its action in the action    *)
(*                  list and the index of its goal in the goal list        *)
(*   JSON text      the text of how_goal_is_actionable is represented by   *)
(*                  what json.loads makes of it: a rejected text, or the   *)
(*                  document it yields                                     *)
(***************************************************************************)
EXTENDS Integers, Sequences, FiniteSets, TLC

VARIABLES
    actions,    \* the list of Action objects the caller holds
    goals,      \* the list of Goal objects the caller holds
    matches,    \* the list of ActionGoalMatch objects the caller holds
    ret,        \* the last call: its name, its arguments and what it returned
    db          \* the database of the relationship store: its tables

vars == <<actions, goals, matches, ret, db>>

-----------------------------------------------------------------------------
(* Bounds of the model *)

MaxTime == 4

MaxAmount == 2

MaxActions == 2

MaxGoals == 2

MaxMatches == 3

-----------------------------------------------------------------------------
(* Optional values *)

None == <<>>

Some(v) == <<v>>

IsNone(o) == o = <<>>

Val(o) == o[1]

-----------------------------------------------------------------------------
(* Strings: str.lower, str.strip, str.replace and the `in` substring test *)

LowerChar(c) ==
    CASE c = "A" -> "a"
      [] c = "B" -> "b"
      [] OTHER -> c

Lower(s) == [i \in 1..Len(s) |-> LowerChar(s[i])]

IsSpace(c) == c = " "

RECURSIVE LStrip(_)
LStrip(s) ==
    IF s = <<>> THEN <<>>
    ELSE IF IsSpace(Head(s)) THEN LStrip(Tail(s)) ELSE s

RECURSIVE RStrip(_)
RStrip(s) ==
    IF s = <<>> THEN <<>>
    ELSE IF IsSpace(s[Len(s)]) THEN RStrip(SubSeq(s, 1, Len(s) - 1)) ELSE s

Strip(s) == RStrip(LStrip(s))

RECURSIVE Replace(_, _, _)
Replace(s, old, new) ==
    IF s = <<>> THEN <<>>
    ELSE (IF Head(s) = old THEN new ELSE <<Head(s)>>) \o Replace(Tail(s), old, new)

Contains(hay, needle) ==
    \E i \in 0..(Len(hay) - Len(needle)) :
        SubSeq(hay, i + 1, i + Len(needle)) = needle

(* Python truthiness of an Optional[str]: None and "" are falsy *)
Falsy(o) == IsNone(o) \/ Val(o) = <<>>

-----------------------------------------------------------------------------
(* JSON documents, as json.loads yields them.                              *)
(* A member of an array is [t, s]: t is "string" (s its characters) or     *)
(* "number" (a number or boolean) or "null".  A value of the "units" or    *)
(* "keywords" member is [t, s, items]: t is "missing" (no such member),    *)
(* "null", "number", "string" (s its characters), "array" (items its       *)
(* members) or "object" (items its keys).  The text itself is              *)
(* [kind, units, keywords]: kind is "empty" (the text ""), "invalid"       *)
(* (json.loads raises JSONDecodeError), or the type of the document.       *)

JStr(s) == [t |-> "string", s |-> s]

JNum == [t |-> "number", s |-> <<>>]

JMissing == [t |-> "missing", s |-> <<>>, items |-> <<>>]

JNull == [t |-> "null", s |-> <<>>, items |-> <<>>]

JNumber == [t |-> "number", s |-> <<>>, items |-> <<>>]

JString(s) == [t |-> "string", s |-> s, items |-> <<>>]

JArray(items) == [t |-> "array", s |-> <<>>, items |-> items]

JObject(keys) == [t |-> "object", s |-> <<>>, items |-> keys]

Text(kind, units, keywords) == [kind |-> kind, units |-> units, keywords |-> keywords]

(* `for x in v`: what iterating a JSON value yields, or raised (TypeError) *)
Iterate(v) ==
    CASE v.t = "missing" -> [raised |-> FALSE, items |-> <<>>]
      [] v.t = "array"   -> [raised |-> FALSE, items |-> v.items]
      [] v.t = "object"  -> [raised |-> FALSE, items |-> v.items]
      [] v.t = "string"  -> [raised |-> FALSE, items |-> [i \in 1..Len(v.s) |-> JStr(<<v.s[i]>>)]]
      [] OTHER           -> [raised |-> TRUE, items |-> <<>>]

(* u.lower().strip() *)
NormalizeUnit(u) == Strip(Lower(u))

(* k.lower().strip().replace('*', '').strip() *)
NormalizeKeyword(k) == Strip(Replace(Strip(Lower(k)), "*", <<>>))

AllStrings(items) == \A i \in 1..Len(items) : items[i].t = "string"

NonBlank(item) == Strip(item.s) # <<>>

RECURSIVE KeywordList(_)
KeywordList(items) ==
    IF items = <<>> THEN <<>>
    ELSE (IF NonBlank(Head(items)) THEN <<NormalizeKeyword(Head(items).s)>> ELSE <<>>)
         \o KeywordList(Tail(items))

(* The try block of matches_with_how_goal_is_actionable: raised is TRUE    *)
(* when json.loads, data.get or one of the comprehensions raises           *)
(* JSONDecodeError, AttributeError or TypeError.                           *)
ParseActionability(text) ==
    LET failed == [raised |-> TRUE, allowed_units |-> <<>>, required_keywords |-> <<>>]
        us == Iterate(text.units)
        ks == Iterate(text.keywords)
    IN  IF text.kind # "object" THEN failed
        ELSE IF us.raised \/ ~AllStrings(us.items) THEN failed
        ELSE IF ks.raised \/ ~AllStrings(ks.items) THEN failed
        ELSE [raised |-> FALSE,
              allowed_units |-> [i \in 1..Len(us.items) |-> NormalizeUnit(us.items[i].s)],
              required_keywords |-> KeywordList(ks.items)]

-----------------------------------------------------------------------------
(* Entities *)

Action(common_name, log_time, measurement_units_by_amount) ==
    [common_name |-> common_name,
     log_time |-> log_time,
     measurement_units_by_amount |-> measurement_units_by_amount]

Goal(cls, measurement_unit, start_date, end_date, how_goal_is_actionable) ==
    [cls |-> cls,
     measurement_unit |-> measurement_unit,
     start_date |-> start_date,
     end_date |-> end_date,
     how_goal_is_actionable |-> how_goal_is_actionable]

ConfidenceAutoInferred == 90

DefaultThreshold == 70

FullConfidence == 100

(* ActionGoalMatch built without its confidence, which then takes the      *)
(* default of the dataclass                                                *)
ActionGoalMatch_DefaultConfidence(action, goal, contribution, assignment_method, confidence) ==
    [action |-> action,
     goal |-> goal,
     contribution |-> contribution,
     assignment_method |-> assignment_method,
     confidence |-> FullConfidence]

ActionGoalMatch(action, goal, contribution, assignment_method, confidence) ==
    [action |-> action,
     goal |-> goal,
     contribution |-> contribution,
     assignment_method |-> assignment_method,
     confidence |-> confidence]

-----------------------------------------------------------------------------
(* The matcher *)

(* matches_on_period asking for the goal's start date before the action's  *)
(* log time                                                                *)
matches_on_period_GoalFirst(action, goal) ==
    IF IsNone(goal.start_date) THEN TRUE
    ELSE IF IsNone(action.log_time) THEN FALSE
    ELSE IF goal.cls = "SmartGoal"
         THEN Val(goal.start_date) <= Val(action.log_time)
              /\ Val(action.log_time) <= Val(goal.end_date)
    ELSE TRUE

matches_on_period(action, goal) ==
    IF IsNone(action.log_time) THEN FALSE
    ELSE IF IsNone(goal.start_date) THEN TRUE
    ELSE IF goal.cls = "SmartGoal"
         THEN Val(goal.start_date) <= Val(action.log_time)
              /\ Val(action.log_time) <= Val(goal.end_date)
    ELSE TRUE

(* `not action.measurement_units_by_amount`: None or the empty dict *)
NoMeasurements(action) ==
    IsNone(action.measurement_units_by_amount)
    \/ Val(action.measurement_units_by_amount) = <<>>

RECURSIVE FirstKeyContaining(_, _)
FirstKeyContaining(entries, goal_unit) ==
    IF entries = <<>> THEN [matched |-> FALSE, key |-> None, value |-> None]
    ELSE IF Contains(Lower(Head(entries)[1]), goal_unit)
         THEN [matched |-> TRUE, key |-> Some(Head(entries)[1]), value |-> Some(Head(entries)[2])]
    ELSE FirstKeyContaining(Tail(entries), goal_unit)

matches_on_unit(action, goal) ==
    IF NoMeasurements(action) \/ Falsy(goal.measurement_unit)
    THEN [matched |-> FALSE, key |-> None, value |-> None]
    ELSE FirstKeyContaining(Val(action.measurement_units_by_amount),
                            Replace(Lower(Val(goal.measurement_unit)), " ", <<"_">>))

InList(x, list) == \E i \in 1..Len(list) : list[i] = x

RECURSIVE FirstAllowedAmount(_, _)
FirstAllowedAmount(entries, allowed_units) ==
    IF entries = <<>> THEN None
    ELSE IF InList(Lower(Head(entries)[1]), allowed_units) THEN Some(Head(entries)[2])
    ELSE FirstAllowedAmount(Tail(entries), allowed_units)

UnitOnly(action, goal) ==
    [matched |-> matches_on_unit(action, goal).matched,
     contribution |-> matches_on_unit(action, goal).value]

NoMatch == [matched |-> FALSE, contribution |-> None]

(* StrictMatch without the keyword check: the unit alone decides *)
StrictMatch_UnitAlone(action, allowed_units, required_keywords) ==
    LET contribution ==
            IF NoMeasurements(action) THEN None
            ELSE FirstAllowedAmount(Val(action.measurement_units_by_amount), allowed_units)
    IN  IF IsNone(contribution) THEN NoMatch
        ELSE [matched |-> TRUE, contribution |-> contribution]

StrictMatch(action, allowed_units, required_keywords) ==
    LET contribution ==
            IF NoMeasurements(action) THEN None
            ELSE FirstAllowedAmount(Val(action.measurement_units_by_amount), allowed_units)
        action_lower == Lower(action.common_name)
        keyword_matched ==
            \E i \in 1..Len(required_keywords) : Contains(action_lower, required_keywords[i])
    IN  IF NoMeasurements(action) THEN NoMatch
        ELSE IF IsNone(contribution) THEN NoMatch
        ELSE IF action.common_name = <<>> THEN NoMatch
        ELSE IF ~keyword_matched THEN NoMatch
        ELSE [matched |-> TRUE, contribution |-> contribution]

matches_with_how_goal_is_actionable(action, goal) ==
    IF IsNone(goal.how_goal_is_actionable) \/ Val(goal.how_goal_is_actionable).kind = "empty"
    THEN UnitOnly(action, goal)
    ELSE LET data == ParseActionability(Val(goal.how_goal_is_actionable))
         IN  IF data.raised THEN UnitOnly(action, goal)
             ELSE IF data.allowed_units = <<>> \/ data.required_keywords = <<>>
                  THEN UnitOnly(action, goal)
             ELSE StrictMatch(action, data.allowed_units, data.required_keywords)

RECURSIVE InferFrom(_, _, _, _, _)
InferFrom(as, gs, required, i, j) ==
    IF i > Len(as) THEN <<>>
    ELSE IF j > Len(gs) THEN InferFrom(as, gs, required, i + 1, 1)
    ELSE LET period_match == matches_on_period(as[i], gs[j])
             how == matches_with_how_goal_is_actionable(as[i], gs[j])
         IN  (IF required /\ ~period_match THEN <<>>
              ELSE IF ~how.matched THEN <<>>
              ELSE <<ActionGoalMatch(i, j, how.contribution, "auto_inferred",
                                     ConfidenceAutoInferred)>>)
             \o InferFrom(as, gs, required, i, j + 1)

(* infer_matches applying the period predicate whatever the flag *)
infer_matches_AlwaysPeriod(as, gs, required) == InferFrom(as, gs, TRUE, 1, 1)

infer_matches(as, gs, required) == InferFrom(as, gs, required, 1, 1)

(* the confident test with > in place of >= *)
AtLeast_Strictly(threshold, m) == m.confidence > threshold

AtLeast(threshold, m) == m.confidence >= threshold

Below(threshold, m) == m.confidence < threshold

filter_ambiguous_matches(ms, threshold) ==
    LET IsConfident(m) == AtLeast(threshold, m)
        IsAmbiguous(m) == Below(threshold, m)
    IN  [confident |-> SelectSeq(ms, IsConfident),
         ambiguous |-> SelectSeq(ms, IsAmbiguous)]

(* create_manual_match inferring the contribution whenever the given one  *)
(* is falsy (`if not contribution`)                                        *)
create_manual_match_FalsyContribution(action, goal, contribution) ==
    LET unit_match == matches_on_unit(actions[action], goals[goal])
        contrib == unit_match.value
    IN  ActionGoalMatch(action, goal,
                        IF IsNone(contribution) \/ Val(contribution) = 0
                        THEN (IF ~IsNone(contrib) THEN contrib ELSE Some(0))
                        ELSE contribution,
                        "manual", FullConfidence)

(* action and goal are positions in the lists actions and goals;           *)
(* contribution is None when the argument is omitted                       *)
create_manual_match(action, goal, contribution) ==
    LET unit_match == matches_on_unit(actions[action], goals[goal])
        contrib == unit_match.value
    IN  ActionGoalMatch(action, goal,
                        IF IsNone(contribution)
                        THEN (IF ~IsNone(contrib) THEN contrib ELSE Some(0))
                        ELSE contribution,
                        "manual", FullConfidence)

(* confirm_suggested_match carrying the confidence of the suggestion over  *)
confirm_suggested_match_KeepConfidence(match) ==
    ActionGoalMatch(match.action, match.goal, match.contribution,
                    "user_confirmed", match.confidence)

confirm_suggested_match(match) ==
    ActionGoalMatch(match.action, match.goal, match.contribution,
                    "user_confirmed", FullConfidence)

-----------------------------------------------------------------------------
(* Floating point.  A natural number of any size is the sequence of its    *)
(* binary digits, lowest first, the highest being 1; zero is <<>>.         *)

BigTrim(a) ==
    LET ones == {i \in 1..Len(a) : a[i] = 1}
    IN  IF ones = {} THEN <<>>
        ELSE SubSeq(a, 1, CHOOSE i \in ones : \A j \in ones : j <= i)

RECURSIVE BigOfNat(_)
BigOfNat(n) == IF n = 0 THEN <<>> ELSE <<n % 2>> \o BigOfNat(n \div 2)

Digit(a, i) == IF i <= Len(a) THEN a[i] ELSE 0

(* The operations below go through the digits lo..hi by halves, handing    *)
(* the carry c from the lower half to the upper one                        *)
RECURSIVE AddRange(_, _, _, _, _)
AddRange(a, b, lo, hi, c) ==
    IF lo > hi THEN [d |-> <<>>, c |-> c]
    ELSE IF lo = hi
    THEN [d |-> <<(Digit(a, lo) + Digit(b, lo) + c) % 2>>,
          c |-> (Digit(a, lo) + Digit(b, lo) + c) \div 2]
    ELSE LET lower == AddRange(a, b, lo, (lo + hi) \div 2, c)
             upper == AddRange(a, b, (lo + hi) \div 2 + 1, hi, lower.c)
         IN  [d |-> lower.d \o upper.d, c |-> upper.c]

(* a + b + carry *)
BigAdd(a, b, carry) ==
    LET sum == AddRange(a, b, 1, IF Len(a) > Len(b) THEN Len(a) ELSE Len(b), carry)
    IN  sum.d \o BigOfNat(sum.c)

(* c is the borrow *)
RECURSIVE SubRange(_, _, _, _, _)
SubRange(a, b, lo, hi, c) ==
    IF lo > hi THEN [d |-> <<>>, c |-> c]
    ELSE IF lo = hi
    THEN [d |-> <<(2 + Digit(a, lo) - Digit(b, lo) - c) % 2>>,
          c |-> IF Digit(a, lo) - Digit(b, lo) - c < 0 THEN 1 ELSE 0]
    ELSE LET lower == SubRange(a, b, lo, (lo + hi) \div 2, c)
             upper == SubRange(a, b, (lo + hi) \div 2 + 1, hi, lower.c)
         IN  [d |-> lower.d \o upper.d, c |-> upper.c]

(* a - b for a >= b *)
BigSub(a, b) == BigTrim(SubRange(a, b, 1, Len(a), 0).d)

RECURSIVE MulRange(_, _, _, _, _)
MulRange(a, k, lo, hi, c) ==
    IF lo > hi THEN [d |-> <<>>, c |-> c]
    ELSE IF lo = hi
    THEN [d |-> <<(a[lo] * k + c) % 2>>, c |-> (a[lo] * k + c) \div 2]
    ELSE LET lower == MulRange(a, k, lo, (lo + hi) \div 2, c)
             upper == MulRange(a, k, (lo + hi) \div 2 + 1, hi, lower.c)
         IN  [d |-> lower.d \o upper.d, c |-> upper.c]

(* a * k + carry for a small number k *)
BigMulSmall(a, k, carry) ==
    LET product == MulRange(a, k, 1, Len(a), carry)
    IN  product.d \o BigOfNat(product.c)

BigShl(a, s) == IF a = <<>> THEN <<>> ELSE [i \in 1..s |-> 0] \o a

BigLess(a, b) ==
    IF Len(a) # Len(b) THEN Len(a) < Len(b)
    ELSE \E i \in 1..Len(a) :
             /\ a[i] < b[i]
             /\ \A j \in (i + 1)..Len(a) : a[j] = b[j]

(* Long division of the digits hi, hi-1, .. lo of a by the small number n, *)
(* r being the remainder left by the digits above hi; the digits of the    *)
(* quotient come highest first                                             *)
RECURSIVE DivRange(_, _, _, _, _)
DivRange(a, n, lo, hi, r) ==
    IF lo > hi THEN [q |-> <<>>, r |-> r]
    ELSE IF lo = hi
    THEN (IF 2 * r + a[lo] >= n THEN [q |-> <<1>>, r |-> 2 * r + a[lo] - n]
          ELSE [q |-> <<0>>, r |-> 2 * r + a[lo]])
    ELSE LET upper == DivRange(a, n, (lo + hi) \div 2 + 1, hi, r)
             lower == DivRange(a, n, lo, (lo + hi) \div 2, upper.r)
         IN  [q |-> upper.q \o lower.q, r |-> lower.r]

Reverse(s) == [i \in 1..Len(s) |-> s[Len(s) + 1 - i]]

BigDivSmall(a, n) ==
    LET d == DivRange(a, n, 1, Len(a), 0)
    IN  [q |-> BigTrim(Reverse(d.q)), r |-> d.r]

(* A float is (-1)^neg * m * 2^e with m of exactly MantissaBits digits,    *)
(* or zero.  Python's float is the IEEE 754 double.                        *)
MantissaBits == 53

FZero == [neg |-> FALSE, m |-> <<>>, e |-> 0]

(* Round m * 2^e, plus a non-zero amount below the lowest digit of m when  *)
(* sticky, to the nearest float, ties to even                              *)
FRound(neg, m, e, sticky) ==
    IF m = <<>> THEN FZero
    ELSE IF Len(m) <= MantissaBits
    THEN [neg |-> neg, m |-> BigShl(m, MantissaBits - Len(m)),
          e |-> e - (MantissaBits - Len(m))]
    ELSE LET d == Len(m) - MantissaBits
             kept == SubSeq(m, d + 1, Len(m))
             low == sticky \/ \E i \in 1..(d - 1) : m[i] = 1
             up == m[d] = 1 /\ (low \/ kept[1] = 1)
             inc == BigAdd(kept, <<>>, 1)
         IN  IF ~up THEN [neg |-> neg, m |-> kept, e |-> e + d]
             ELSE IF Len(inc) > MantissaBits
             THEN [neg |-> neg, m |-> Tail(inc), e |-> e + d + 1]
             ELSE [neg |-> neg, m |-> inc, e |-> e + d]

FloatOfInt(n) == FRound(n < 0, BigOfNat(IF n < 0 THEN -n ELSE n), 0, FALSE)

(* x / n for a float x and a float n that is a positive whole number: the  *)
(* quotient is computed to more digits than the mantissa holds and rounded *)
FDivSmall(x, n) ==
    IF x.m = <<>> THEN FZero
    ELSE LET guard == Len(BigOfNat(n)) + 1
             d == BigDivSmall(BigShl(x.m, guard), n)
         IN  FRound(x.neg, d.q, x.e - guard, d.r # 0)

(* x * k for a float x and a float k that is a positive whole number *)
FMulSmall(x, k) == FRound(x.neg, BigMulSmall(x.m, k, 0), x.e, FALSE)

FAdd(x, y) ==
    IF x.m = <<>> THEN y
    ELSE IF y.m = <<>> THEN x
    ELSE LET e == IF x.e < y.e THEN x.e ELSE y.e
             a == BigShl(x.m, x.e - e)
             b == BigShl(y.m, y.e - e)
         IN  IF x.neg = y.neg THEN FRound(x.neg, BigAdd(a, b, 0), e, FALSE)
             ELSE IF a = b THEN FZero
             ELSE IF BigLess(a, b) THEN FRound(y.neg, BigSub(b, a), e, FALSE)
             ELSE FRound(x.neg, BigSub(a, b), e, FALSE)

(* x < y *)
FLess(x, y) ==
    LET Smaller(a, b) ==
            IF a.m = <<>> THEN b.m # <<>>
            ELSE IF b.m = <<>> THEN FALSE
            ELSE a.e < b.e \/ (a.e = b.e /\ BigLess(a.m, b.m))
    IN  IF x.neg /\ ~y.neg THEN TRUE
        ELSE IF ~x.neg /\ y.neg THEN FALSE
        ELSE IF x.neg THEN Smaller(y, x)
        ELSE Smaller(x, y)

-----------------------------------------------------------------------------
(* The aggregator.  Its goals are the dataclasses: they carry a uuid_id    *)
(* and a measurement_target, and target_date is held in the field end_date *)

DataclassGoal(goal_type, uuid_id, measurement_unit, measurement_target, start_date, target_date, how_goal_is_actionable) ==
    Goal(goal_type, measurement_unit, start_date, target_date, how_goal_is_actionable)
        @@ [uuid_id |-> uuid_id, measurement_target |-> measurement_target]

(* Goal is declared with unsafe_hash=True; Milestone and SmartGoal are     *)
(* declared with a plain @dataclass, whose __eq__ sets __hash__ to None    *)
Hashable(goal) == goal.cls = "Goal"

(* total_progress and target are floats holding whole numbers *)
GoalProgress(goal, ms, total_progress, target) ==
    [goal |-> goal, matches |-> ms, total_progress |-> total_progress, target |-> target]

OverachievedPercent == 110

(* percent returning 100.0 for a goal without a positive target *)
percent_FullWithoutTarget(progress) ==
    IF progress.target <= 0 THEN FloatOfInt(100)
    ELSE FMulSmall(FDivSmall(FloatOfInt(progress.total_progress), progress.target), 100)

percent(progress) ==
    IF progress.target <= 0 THEN FZero
    ELSE FMulSmall(FDivSmall(FloatOfInt(progress.total_progress), progress.target), 100)

(* remaining without the clamp at 0.0 *)
remaining_Unclamped(progress) == progress.target - progress.total_progress

remaining(progress) ==
    IF progress.target - progress.total_progress > 0
    THEN progress.target - progress.total_progress
    ELSE 0

(* is_complete with > in place of >= *)
is_complete_Strictly(progress) == progress.total_progress > progress.target

is_complete(progress) == progress.total_progress >= progress.target

is_overachieved(progress) == FLess(FloatOfInt(OverachievedPercent), percent(progress))

matching_actions_count(progress) == Len(progress.matches)

unit(progress) ==
    IF Falsy(goals[progress.goal].measurement_unit) THEN <<"u", "n", "i", "t", "s">>
    ELSE Val(goals[progress.goal].measurement_unit)

(* The sum replaced by the contribution of the last match *)
SumContributions_LastOnly(ms) ==
    IF ms = <<>> THEN 0
    ELSE IF IsNone(ms[Len(ms)].contribution) THEN 0
    ELSE Val(ms[Len(ms)].contribution)

RECURSIVE SumContributions(_)
SumContributions(ms) ==
    IF ms = <<>> THEN 0
    ELSE (IF IsNone(Head(ms).contribution) THEN 0 ELSE Val(Head(ms).contribution))
         + SumContributions(Tail(ms))

HasContribution(m) == ~IsNone(m.contribution)

(* aggregate_goal_progress keeping only the matches that have a            *)
(* contribution                                                            *)
aggregate_goal_progress_DropsNullMatches(goal, ms) ==
    GoalProgress(goal, SelectSeq(ms, HasContribution), SumContributions(ms),
                 IF ~IsNone(goals[goal].measurement_target)
                 THEN Val(goals[goal].measurement_target) ELSE 0)

(* goal is a position in the list goals *)
aggregate_goal_progress(goal, ms) ==
    GoalProgress(goal, ms, SumContributions(ms),
                 IF ~IsNone(goals[goal].measurement_target)
                 THEN Val(goals[goal].measurement_target) ELSE 0)

(* matches_by_goal.get(goal, []): the dict compares its keys with __eq__,  *)
(* which for a dataclass compares the class and every field                *)
MatchesByGoal(all_matches, goal) ==
    LET SameKey(m) == goals[m.goal] = goals[goal]
    IN  SelectSeq(all_matches, SameKey)

(* gs is a list of positions in the list goals.  Using a goal as a dict    *)
(* key raises TypeError when it is unhashable.                             *)
aggregate_all_goals(gs, all_matches) ==
    IF \/ \E k \in 1..Len(all_matches) : ~Hashable(goals[all_matches[k].goal])
       \/ \E i \in 1..Len(gs) : ~Hashable(goals[gs[i]])
    THEN [raised |-> TRUE, value |-> <<>>]
    ELSE [raised |-> FALSE,
          value |-> [i \in 1..Len(gs) |->
                        aggregate_goal_progress(gs[i], MatchesByGoal(all_matches, gs[i]))]]

(* sum(p.percent for p in all_progress), added from left to right *)
RECURSIVE SumPercent(_, _)
SumPercent(all_progress, i) ==
    IF i = 0 THEN FZero
    ELSE FAdd(SumPercent(all_progress, i - 1), percent(all_progress[i]))

RECURSIVE SumCounts(_)
SumCounts(all_progress) ==
    IF all_progress = <<>> THEN 0
    ELSE matching_actions_count(Head(all_progress)) + SumCounts(Tail(all_progress))

(* get_progress_summary dividing the sum of the percents by the number of  *)
(* goals in progress                                                       *)
get_progress_summary_MeanOverInProgress(all_progress) ==
    IF all_progress = <<>>
    THEN [total_goals |-> 0, complete_goals |-> 0, in_progress_goals |-> 0,
          avg_completion_percent |-> FZero, total_actions_matched |-> 0]
    ELSE LET complete_count == Len(SelectSeq(all_progress, is_complete))
         IN  [total_goals |-> Len(all_progress),
              complete_goals |-> complete_count,
              in_progress_goals |-> Len(all_progress) - complete_count,
              avg_completion_percent |->
                  IF Len(all_progress) = complete_count THEN FZero
                  ELSE FDivSmall(SumPercent(all_progress, Len(all_progress)),
                                 Len(all_progress) - complete_count),
              total_actions_matched |-> SumCounts(all_progress)]

get_progress_summary(all_progress) ==
    IF all_progress = <<>>
    THEN [total_goals |-> 0, complete_goals |-> 0, in_progress_goals |-> 0,
          avg_completion_percent |-> FZero, total_actions_matched |-> 0]
    ELSE LET complete_count == Len(SelectSeq(all_progress, is_complete))
         IN  [total_goals |-> Len(all_progress),
              complete_goals |-> complete_count,
              in_progress_goals |-> Len(all_progress) - complete_count,
              avg_completion_percent |->
                  FDivSmall(SumPercent(all_progress, Len(all_progress)),
                            Len(all_progress)),
              total_actions_matched |-> SumCounts(all_progress)]

-----------------------------------------------------------------------------
(* The relationship store (ActionGoalProgressStorageService) and the       *)
(* operations of Database it calls.  A database is the record              *)
(*   [unique_pairs, action_goal_progress, archive, lastrowid]:             *)
(* the rows of the table action_goal_progress in insertion order, the rows *)
(* of the table archive, the last id given to a row, and whether the       *)
(* schema of action_goal_progress declares the pair (action_id, goal_id)   *)
(* unique, in which case an INSERT of a second row for a pair raises       *)
(* IntegrityError.  The id of a stored action or goal is its position in   *)
(* actions or goals.  An operation returns [db, raised, value].            *)

Database(unique_pairs) ==
    [unique_pairs |-> unique_pairs, action_goal_progress |-> <<>>, archive |-> <<>>, lastrowid |-> 0]

NoDatabase == Database(FALSE)

(* A row satisfies the WHERE clause built from filters, a record of the    *)
(* columns and their values                                                *)
Where(row, filters) == \A column \in DOMAIN filters : row[column] = filters[column]

query(database, filters) ==
    LET Selected(row) == Where(row, filters)
    IN  SelectSeq(database.action_goal_progress, Selected)

_archive_records(database, records, reason, notes) ==
    [database EXCEPT !.archive = @ \o
        [i \in 1..Len(records) |->
            [source_id |-> records[i].id, record_data |-> records[i],
             reason |-> reason, notes |-> notes]]]

_delete_records_unsafe(database, filters) ==
    LET Kept(row) == ~Where(row, filters)
    IN  [database EXCEPT !.action_goal_progress = SelectSeq(@, Kept)]

archive_and_delete(database, filters, reason, confirm, notes) ==
    LET records == query(database, filters)
    IN  IF records = <<>> THEN [db |-> database, count |-> 0, deleted |-> FALSE]
        ELSE IF ~confirm THEN [db |-> database, count |-> Len(records), deleted |-> FALSE]
        ELSE [db |-> _delete_records_unsafe(_archive_records(database, records, reason, notes), filters),
              count |-> Len(records), deleted |-> TRUE]

insert(database, record) ==
    IF /\ database.unique_pairs
       /\ query(database, [action_id |-> record.action_id, goal_id |-> record.goal_id]) # <<>>
    THEN [db |-> database, raised |-> "IntegrityError"]
    ELSE [db |-> [database EXCEPT
                     !.action_goal_progress =
                         Append(@, record @@ [id |-> database.lastrowid + 1]),
                     !.lastrowid = @ + 1],
          raised |-> "none"]

(* update(table, record_id, updates={'match_method': match_method}, notes) *)
update(database, record_id, match_method, notes) ==
    LET current_records == query(database, [id |-> record_id])
        Updated(row) == IF row.id = record_id THEN [row EXCEPT !.match_method = match_method]
                        ELSE row
        archived == _archive_records(database, <<current_records[1]>>, "update", notes)
    IN  IF current_records = <<>> THEN [db |-> database, raised |-> "ValueError"]
        ELSE [db |-> [archived EXCEPT !.action_goal_progress =
                          [i \in 1..Len(@) |-> Updated(@[i])]],
              raised |-> "none"]

(* The relationship rel holds the ids of its action and of its goal *)
_store_single_relationship(database, rel) ==
    IF rel.action = 0 \/ rel.goal = 0 THEN [db |-> database, raised |-> "ValueError"]
    ELSE IF query(database, [action_id |-> rel.action, goal_id |-> rel.goal]) # <<>>
         THEN [db |-> database, raised |-> "none"]
    ELSE insert(database, [action_id |-> rel.action,
                           goal_id |-> rel.goal,
                           contribution |-> rel.contribution,
                           match_method |-> rel.assignment_method,
                           confidence |-> Some(rel.confidence),
                           matched_on |-> None])

RECURSIVE store_relationships(_, _)
store_relationships(database, relationships) ==
    IF relationships = <<>> THEN [db |-> database, raised |-> "none", value |-> 0]
    ELSE LET single == _store_single_relationship(database, Head(relationships))
             rest == store_relationships(single.db, Tail(relationships))
         IN  IF single.raised = "none" THEN [rest EXCEPT !.value = @ + 1]
             ELSE IF single.raised = "ValueError" THEN rest
             ELSE [db |-> single.db, raised |-> single.raised, value |-> 0]

(* create_manual_match of the store *)
storage_create_manual_match(database, action_id, goal_id, contribution, reason) ==
    LET pair == [action_id |-> action_id, goal_id |-> goal_id]
        auto == pair @@ [match_method |-> "auto_inferred"]
        cleared == IF query(database, auto) # <<>>
                   THEN archive_and_delete(database, auto, "replaced_with_manual", TRUE, reason).db
                   ELSE database
        inserted == insert(cleared, pair @@ [contribution |-> Some(contribution),
                                             match_method |-> "manual",
                                             confidence |-> None,
                                             matched_on |-> Some(reason)])
    IN  IF action_id \notin 1..Len(actions) \/ goal_id \notin 1..Len(goals)
        THEN [db |-> database, raised |-> "ValueError", value |-> None]
        ELSE IF query(cleared, pair @@ [match_method |-> "manual"]) # <<>>
             THEN [db |-> cleared, raised |-> "none", value |-> None]
        ELSE [db |-> inserted.db, raised |-> inserted.raised, value |-> None]

confirm_auto_match(database, action_id, goal_id) ==
    LET existing == query(database, [action_id |-> action_id, goal_id |-> goal_id,
                                     match_method |-> "auto_inferred"])
        updated == update(database, existing[1].id, "user_confirmed", "User confirmed auto-inferred match")
    IN  IF existing = <<>> THEN [db |-> database, raised |-> "ValueError", value |-> None]
        ELSE [db |-> updated.db, raised |-> updated.raised, value |-> None]

remove_match(database, action_id, goal_id) ==
    [db |-> archive_and_delete(database, [action_id |-> action_id, goal_id |-> goal_id],
                               "user_removed", TRUE, "User explicitly rejected this match").db,
     raised |-> "none", value |-> None]

(* invalidate_auto_inferred removing the rows of every method *)
invalidate_auto_inferred_AnyMethod(database, action_id) ==
    LET filters == IF IsNone(action_id) THEN [id |-> 0] ELSE [action_id |-> Val(action_id)]
        Kept(row) == IF IsNone(action_id) THEN FALSE ELSE ~Where(row, filters)
        count == Len(database.action_goal_progress) - Len(SelectSeq(database.action_goal_progress, Kept))
    IN  [db |-> [database EXCEPT !.action_goal_progress = SelectSeq(@, Kept)],
         raised |-> "none", value |-> Some(count)]

invalidate_auto_inferred(database, action_id) ==
    LET filters == IF IsNone(action_id) THEN [match_method |-> "auto_inferred"]
                   ELSE [match_method |-> "auto_inferred", action_id |-> Val(action_id)]
        result == archive_and_delete(database, filters, "invalidated_cache", FALSE, "")
    IN  IF result.count = 0 THEN [db |-> database, raised |-> "none", value |-> Some(0)]
        ELSE [db |-> archive_and_delete(database, filters, "invalidated_cache", TRUE,
                                        "Cleared stale auto-inferred cache").db,
              raised |-> "none", value |-> Some(result.count)]

-----------------------------------------------------------------------------
(* Inputs.  Letters stand for the words of labels, units and keywords:     *)
(* "A" and "B" are the upper-case forms of "a" and "b".                    *)

Times == 1..MaxTime

OptTimes == {None} \cup {Some(t) : t \in Times}

Amounts == 0..MaxAmount

Labels == {<<>>, <<"A">>, <<"b">>, <<"A", "b">>}

Keys == {<<"A">>, <<"a", "b">>, <<"a", " ", "b">>, <<"a", "_", "b">>, <<"b">>}

PairKeys == {<<"A">>, <<"a", "b">>, <<"b">>}

Measurements ==
    {None, Some(<<>>)}
    \cup {Some(<< <<k, n>> >>) : k \in Keys, n \in Amounts}
    \cup {Some(<< <<p[1], p[3]>>, <<p[2], p[4]>> >>) :
            p \in {q \in PairKeys \X PairKeys \X Amounts \X Amounts :
                       q[1] # q[2] /\ q[3] # q[4]}}

GoalUnits ==
    {None, Some(<<>>), Some(<<"A">>), Some(<<"a", " ", "b">>), Some(<<"b">>)}

UnitsValues ==
    {JMissing, JNull, JString(<<"a", "b">>), JObject(<<JStr(<<"a">>)>>),
     JArray(<<>>),
     JArray(<<JStr(<<"a">>)>>),
     JArray(<<JStr(<<" ", "A", " ">>)>>),
     JArray(<<JStr(<<" ">>)>>),
     JArray(<<JStr(<<"a">>), JStr(<<"b">>)>>),
     JArray(<<JStr(<<"a">>), JNum>>)}

KeywordsValues ==
    {JMissing, JNumber, JString(<<"a", "b">>), JObject(<<JStr(<<"b">>)>>),
     JArray(<<>>),
     JArray(<<JStr(<<"a">>)>>),
     JArray(<<JStr(<<" ">>)>>),
     JArray(<<JStr(<<"*">>)>>),
     JArray(<<JStr(<<"B", "*">>)>>),
     JArray(<<JStr(<<"c">>), JStr(<<"b">>)>>),
     JArray(<<JNum>>)}

Texts ==
    {Text(k, JMissing, JMissing) : k \in {"empty", "invalid", "null", "number", "string", "array"}}
    \cup {Text("object", u, k) : u \in UnitsValues, k \in KeywordsValues}

OptTexts == {None} \cup {Some(t) : t \in Texts}

(* A text a SmartGoal accepts: not None, and not blank *)
HintsA == Some(Text("object", JArray(<<JStr(<<"a">>)>>), JArray(<<JStr(<<"a">>)>>)))

HintsB == Some(Text("object", JArray(<<JStr(<<"a">>)>>), JArray(<<JStr(<<"b">>)>>)))

(* Goal.__init__ takes optional dates; SmartGoal.__init__ requires a unit, *)
(* a text and start_date < end_date.  A goal that has both dates has them  *)
(* in order.                                                               *)
PeriodGoals ==
    {Goal("Goal", Some(<<"A">>), p[1], p[2], None) :
        p \in {q \in OptTimes \X OptTimes :
                   (~IsNone(q[1]) /\ ~IsNone(q[2])) => Val(q[1]) < Val(q[2])}}
    \cup {Goal("SmartGoal", Some(<<"A">>), Some(p[1]), Some(p[2]), HintsA) :
            p \in {q \in Times \X Times : q[1] < q[2]}}

PeriodActions == {Action(<<"A", "b">>, t, Some(<< <<<<"A">>, 1>> >>)) : t \in OptTimes}

PairActions == {Action(l, Some(1), m) : l \in Labels, m \in Measurements}

PairGoals == {Goal("Goal", u, None, None, t) : u \in GoalUnits, t \in OptTexts}

InferActions ==
    {Action(<<"A", "b">>, Some(2), Some(<< <<<<"A">>, 1>> >>)),
     Action(<<"A", "b">>, None, Some(<< <<<<"A">>, 2>> >>)),
     Action(<<"A", "b">>, Some(4), Some(<< <<<<"A">>, 2>> >>)),
     Action(<<"b">>, Some(2), Some(<< <<<<"A">>, 1>> >>)),
     Action(<<"A">>, Some(2), None)}

InferGoals ==
    {Goal("Goal", Some(<<"A">>), None, None, None),
     Goal("Goal", Some(<<"A">>), Some(1), Some(3), HintsA),
     Goal("SmartGoal", Some(<<"A">>), Some(1), Some(3), HintsA),
     Goal("SmartGoal", Some(<<"b">>), Some(3), Some(4), HintsB)}

Confidences == {0, DefaultThreshold - 1, DefaultThreshold, ConfidenceAutoInferred, FullConfidence}

Thresholds == {0, DefaultThreshold, ConfidenceAutoInferred, FullConfidence, FullConfidence + 1}

FilterMatches ==
    {ActionGoalMatch(1, 1, Some(1), "auto_inferred", c) : c \in Confidences}
    \cup {ActionGoalMatch(2, 1, Some(2), "manual", FullConfidence),
          ActionGoalMatch(1, 2, None, "user_confirmed", FullConfidence)}

OptAmounts == {None} \cup {Some(n) : n \in Amounts}

ManualActions == {Action(<<"A">>, Some(1), m) : m \in Measurements}

ManualGoals == {Goal("Goal", u, None, None, None) : u \in GoalUnits}

(* The matches a caller may hold for action 1 and goal 1 *)
SuggestedMatches ==
    {ActionGoalMatch(1, 1, c, "auto_inferred", k) :
        c \in OptAmounts, k \in {DefaultThreshold - 1, ConfidenceAutoInferred}}
    \cup {ActionGoalMatch(1, 1, c, "user_confirmed", FullConfidence) : c \in OptAmounts}
    \cup {ActionGoalMatch(1, 1, c, "manual", FullConfidence) : c \in OptAmounts}

(* Contributions and targets are whole numbers; a total of 11 against a    *)
(* target of 10 is 110 percent                                             *)
AggContributions == {None, Some(-1), Some(5), Some(6)}

AggTargets == {None, Some(0), Some(-5), Some(5), Some(10)}

(* A base goal validates nothing; a SmartGoal has a unit, a positive       *)
(* target, start_date < target_date and its texts; a Milestone has a       *)
(* target_date and no start_date                                           *)
ProgressGoals ==
    {DataclassGoal("Goal", 1, Some(<<"A">>), t, None, None, None) : t \in AggTargets}
    \cup {DataclassGoal("SmartGoal", 1, Some(<<"A">>), Some(10), Some(1), Some(3), HintsA),
          DataclassGoal("Milestone", 1, Some(<<"A">>), Some(5), None, Some(3), None)}

OtherGoal == DataclassGoal("Goal", 2, Some(<<"b">>), Some(10), None, None, None)

LoggedAction == Action(<<"A">>, Some(1), Some(<< <<<<"A">>, 1>> >>))

(* The matches of action 1 with the goals at positions 1..n *)
AggMatches(n) ==
    {ActionGoalMatch(1, j, c, "auto_inferred", ConfidenceAutoInferred) :
        j \in 1..n, c \in AggContributions}

(* Goals of every variant for aggregate_all_goals; the same goal may be    *)
(* held twice, as two equal objects                                        *)
BatchGoals ==
    {g \in ProgressGoals : g.measurement_target \in {None, Some(5), Some(10)}}
    \cup {OtherGoal}

(* The goals whose Progress records are summarized *)
SummaryGoals ==
    <<DataclassGoal("Goal", 1, Some(<<"A">>), None, None, None, None),
      DataclassGoal("Goal", 1, Some(<<"A">>), Some(5), None, None, None),
      DataclassGoal("Goal", 1, Some(<<"A">>), Some(10), None, None, None),
      OtherGoal>>

(* The contributions of the matches of one Progress record *)
SummaryContributions ==
    {<<>>, <<Some(5)>>, <<None, Some(5)>>, <<Some(5), Some(6)>>, <<Some(-1)>>}

(* The Progress records of the goals at positions 1..n *)
ProgressRecords(n) ==
    {aggregate_goal_progress(j,
         [k \in 1..Len(cs) |->
             ActionGoalMatch(1, j, cs[k], "auto_inferred", ConfidenceAutoInferred)]) :
        j \in 1..n, cs \in SummaryContributions}

(* Actions and goals for the operations taken together *)
CoreActions ==
    {Action(<<"A", "b">>, Some(2), Some(<< <<<<"A">>, 1>> >>)),
     Action(<<"b">>, Some(4), Some(<< <<<<"A">>, 2>> >>))}

CoreGoals ==
    {DataclassGoal("Goal", 1, Some(<<"A">>), Some(10), None, None, None),
     DataclassGoal("SmartGoal", 2, Some(<<"A">>), Some(5), Some(1), Some(3), HintsA)}

RECURSIVE ListsUpTo(_, _)
ListsUpTo(S, n) ==
    IF n = 0 THEN {<<>>}
    ELSE ListsUpTo(S, n - 1)
         \cup {Append(l, x) : l \in {k \in ListsUpTo(S, n - 1) : Len(k) = n - 1}, x \in S}

NoCall == [op |-> "none"]

-----------------------------------------------------------------------------
(* matches_on_period on one action and one goal *)

InitPeriod ==
    /\ actions \in {<<a>> : a \in PeriodActions}
    /\ goals \in {<<g>> : g \in PeriodGoals}
    /\ matches = <<>>
    /\ ret = NoCall
    /\ db = NoDatabase

CallMatchesOnPeriod ==
    /\ \E i \in 1..Len(actions), j \in 1..Len(goals) :
           ret' = [op |-> "matches_on_period", action |-> i, goal |-> j,
                   value |-> matches_on_period(actions[i], goals[j])]
    /\ UNCHANGED <<db, actions, goals, matches>>

NextPeriod == CallMatchesOnPeriod

SpecPeriod == InitPeriod /\ [][NextPeriod]_vars

-----------------------------------------------------------------------------
(* matches_on_unit and matches_with_how_goal_is_actionable on one action   *)
(* and one goal                                                            *)

InitPair ==
    /\ actions \in {<<a>> : a \in PairActions}
    /\ goals \in {<<g>> : g \in PairGoals}
    /\ matches = <<>>
    /\ ret = NoCall
    /\ db = NoDatabase

CallMatchesOnUnit ==
    /\ \E i \in 1..Len(actions), j \in 1..Len(goals) :
           ret' = [op |-> "matches_on_unit", action |-> i, goal |-> j,
                   value |-> matches_on_unit(actions[i], goals[j])]
    /\ UNCHANGED <<db, actions, goals, matches>>

CallMatchesWithHowGoalIsActionable ==
    /\ \E i \in 1..Len(actions), j \in 1..Len(goals) :
           ret' = [op |-> "matches_with_how_goal_is_actionable", action |-> i, goal |-> j,
                   value |-> matches_with_how_goal_is_actionable(actions[i], goals[j])]
    /\ UNCHANGED <<db, actions, goals, matches>>

NextPair == CallMatchesOnUnit \/ CallMatchesWithHowGoalIsActionable

SpecPair == InitPair /\ [][NextPair]_vars

-----------------------------------------------------------------------------
(* infer_matches on a list of actions and a list of goals *)

InitInfer ==
    /\ actions \in ListsUpTo(InferActions, MaxActions)
    /\ goals \in ListsUpTo(InferGoals, MaxGoals)
    /\ matches = <<>>
    /\ ret = NoCall
    /\ db = NoDatabase

CallInferMatches ==
    /\ \E required \in BOOLEAN :
           /\ matches' = infer_matches(actions, goals, required)
           /\ ret' = [op |-> "infer_matches", require_period_match |-> required]
    /\ UNCHANGED <<db, actions, goals>>

NextInfer == CallInferMatches

SpecInfer == InitInfer /\ [][NextInfer]_vars

-----------------------------------------------------------------------------
(* filter_ambiguous_matches on a list of matches *)

InitFilter ==
    /\ actions = <<>>
    /\ goals = <<>>
    /\ matches \in ListsUpTo(FilterMatches, MaxMatches)
    /\ ret = NoCall
    /\ db = NoDatabase

CallFilterAmbiguousMatches ==
    /\ \E threshold \in Thresholds :
           ret' = [op |-> "filter_ambiguous_matches", confidence_threshold |-> threshold,
                   value |-> filter_ambiguous_matches(matches, threshold)]
    /\ UNCHANGED <<db, actions, goals, matches>>

NextFilter == CallFilterAmbiguousMatches

SpecFilter == InitFilter /\ [][NextFilter]_vars

-----------------------------------------------------------------------------
(* create_manual_match on one action and one goal, confirm_suggested_match *)
(* on a match the caller holds                                             *)

InitManual ==
    /\ actions \in {<<a>> : a \in ManualActions}
    /\ goals \in {<<g>> : g \in ManualGoals}
    /\ matches \in ListsUpTo(SuggestedMatches, 1)
    /\ ret = NoCall
    /\ db = NoDatabase

CallCreateManualMatch ==
    /\ \E i \in 1..Len(actions), j \in 1..Len(goals), contribution \in OptAmounts :
           ret' = [op |-> "create_manual_match", action |-> i, goal |-> j,
                   contribution |-> contribution,
                   value |-> create_manual_match(i, j, contribution)]
    /\ UNCHANGED <<db, actions, goals, matches>>

(* confirm_suggested_match changing the match it is given and returning it *)
CallConfirmSuggestedMatch_InPlace ==
    /\ \E k \in 1..Len(matches) :
           /\ matches' = [matches EXCEPT ![k] = confirm_suggested_match(matches[k])]
           /\ ret' = [op |-> "confirm_suggested_match", match |-> k,
                      value |-> confirm_suggested_match(matches[k])]
    /\ UNCHANGED <<db, actions, goals>>

CallConfirmSuggestedMatch ==
    /\ \E k \in 1..Len(matches) :
           ret' = [op |-> "confirm_suggested_match", match |-> k,
                   value |-> confirm_suggested_match(matches[k])]
    /\ UNCHANGED <<db, actions, goals, matches>>

NextManual == CallCreateManualMatch \/ CallConfirmSuggestedMatch

SpecManual == InitManual /\ [][NextManual]_vars

-----------------------------------------------------------------------------
(* aggregate_goal_progress on one goal and a list of matches, which may    *)
(* hold matches of another goal                                            *)

InitProgress ==
    /\ actions = <<LoggedAction>>
    /\ goals \in {<<g>> : g \in ProgressGoals} \cup {<<g, OtherGoal>> : g \in ProgressGoals}
    /\ matches \in ListsUpTo(AggMatches(Len(goals)), MaxMatches)
    /\ ret = NoCall
    /\ db = NoDatabase

CallAggregateGoalProgress ==
    /\ \E j \in 1..Len(goals) :
           ret' = [op |-> "aggregate_goal_progress", goal |-> j,
                   value |-> aggregate_goal_progress(j, matches)]
    /\ UNCHANGED <<db, actions, goals, matches>>

NextProgress == CallAggregateGoalProgress

SpecProgress == InitProgress /\ [][NextProgress]_vars

-----------------------------------------------------------------------------
(* aggregate_all_goals on a list of goals taken from the list goals, in    *)
(* any order, and a list of matches over all the goals                     *)

InitBatch ==
    /\ actions = <<LoggedAction>>
    /\ goals \in ListsUpTo(BatchGoals, MaxGoals)
    /\ matches \in ListsUpTo(AggMatches(Len(goals)), MaxMatches)
    /\ ret = NoCall
    /\ db = NoDatabase

CallAggregateAllGoals ==
    /\ \E gs \in ListsUpTo(1..Len(goals), MaxGoals) :
           ret' = [op |-> "aggregate_all_goals", goals |-> gs,
                   value |-> aggregate_all_goals(gs, matches)]
    /\ UNCHANGED <<db, actions, goals, matches>>

NextBatch == CallAggregateAllGoals

SpecBatch == InitBatch /\ [][NextBatch]_vars

-----------------------------------------------------------------------------
(* get_progress_summary on a list of Progress records *)

InitSummary ==
    /\ actions = <<LoggedAction>>
    /\ goals = SummaryGoals
    /\ matches = <<>>
    /\ ret = NoCall
    /\ db = NoDatabase

(* The summary is asked for once *)
CallGetProgressSummary ==
    /\ ret = NoCall
    /\ \E all_progress \in ListsUpTo(ProgressRecords(Len(goals)), MaxGoals) :
           ret' = [op |-> "get_progress_summary", all_progress |-> all_progress,
                   value |-> get_progress_summary(all_progress)]
    /\ UNCHANGED <<db, actions, goals, matches>>

NextSummary == CallGetProgressSummary

SpecSummary == InitSummary /\ [][NextSummary]_vars

-----------------------------------------------------------------------------
(* The operations of the matcher and of the aggregator on the same lists:  *)
(* the caller keeps the matches infer_matches returns, filters, confirms   *)
(* and aggregates them, and summarizes the Progress of all goals           *)

InitCore ==
    /\ actions \in ListsUpTo(CoreActions, MaxActions)
    /\ goals \in ListsUpTo(CoreGoals, MaxGoals)
    /\ matches = <<>>
    /\ ret = NoCall
    /\ db = NoDatabase

(* get_progress_summary(all_progress) on the list aggregate_all_goals has  *)
(* just returned                                                           *)
CallGetProgressSummaryOfAll ==
    /\ ret.op = "aggregate_all_goals"
    /\ ~ret.value.raised
    /\ ret' = [op |-> "get_progress_summary", all_progress |-> ret.value.value,
               value |-> get_progress_summary(ret.value.value)]
    /\ UNCHANGED <<db, actions, goals, matches>>

NextCore ==
    \/ CallInferMatches
    \/ CallFilterAmbiguousMatches
    \/ CallCreateManualMatch
    \/ CallConfirmSuggestedMatch
    \/ CallAggregateGoalProgress
    \/ CallAggregateAllGoals
    \/ CallGetProgressSummaryOfAll

SpecCore == InitCore /\ [][NextCore]_vars

-----------------------------------------------------------------------------
(* Construction of goals.  The arguments of a constructor are a record     *)
(* fields of the optionals title, measurement_unit, measurement_target,    *)
(* start_date, end_date (target_date in the dataclasses),                  *)
(* how_goal_is_relevant and how_goal_is_actionable.  A constructor returns *)
(* [raised, value]: raised is "none", "ValueError" or "TypeError", and     *)
(* value is the object, None when the constructor raised.                  *)

(* `not s or not s.strip()` on an optional string *)
BlankStr(o) == IsNone(o) \/ Strip(Val(o)) = <<>>

(* `not s or not s.strip()` on an optional actionability text: the text "" *)
(* is of kind "empty" and a text of white space of kind "blank"            *)
BlankText(o) == IsNone(o) \/ Val(o).kind \in {"empty", "blank"}

Raised(exception) == [raised |-> exception, value |-> None]

Returned(object) == [raised |-> "none", value |-> Some(object)]

(* Goal.__init__ of categoriae/goals.py: the arguments are stored as given *)
Goal_init(fields) ==
    Returned(Goal("Goal", fields.measurement_unit, fields.start_date, fields.end_date, fields.how_goal_is_actionable)
                 @@ [description |-> fields.title,
                     measurement_target |-> fields.measurement_target,
                     how_goal_is_relevant |-> fields.how_goal_is_relevant])

(* SmartGoal.__init__ of categoriae/goals.py, read at the time now: the    *)
(* comparisons of None with a number or a datetime raise TypeError         *)
SmartGoal_init(fields, now) ==
    IF BlankStr(fields.title) THEN Raised("ValueError")
    ELSE IF BlankStr(fields.measurement_unit) THEN Raised("ValueError")
    ELSE IF IsNone(fields.measurement_target) THEN Raised("TypeError")
    ELSE IF Val(fields.measurement_target) <= 0 THEN Raised("ValueError")
    ELSE IF IsNone(fields.start_date) \/ IsNone(fields.end_date) THEN Raised("TypeError")
    ELSE IF Val(fields.start_date) >= Val(fields.end_date) THEN Raised("ValueError")
    ELSE IF Val(fields.end_date) <= now THEN Raised("ValueError")
    ELSE IF BlankStr(fields.how_goal_is_relevant) THEN Raised("ValueError")
    ELSE IF BlankText(fields.how_goal_is_actionable) THEN Raised("ValueError")
    ELSE Returned([Val(Goal_init(fields).value) EXCEPT !.cls = "SmartGoal"])

(* The generated __init__ of a dataclass of python/categoriae/goals.py     *)
DataclassInit(goal_type, uuid_id, fields) ==
    DataclassGoal(goal_type, uuid_id, fields.measurement_unit, fields.measurement_target, fields.start_date, fields.end_date, fields.how_goal_is_actionable)
        @@ [title |-> fields.title, how_goal_is_relevant |-> fields.how_goal_is_relevant]

(* Goal(...) of python/categoriae/goals.py: no __post_init__ *)
Goal_dataclass(fields, uuid_id) == Returned(DataclassInit("Goal", uuid_id, fields))

(* Milestone(...): __post_init__ clears start_date and requires target_date *)
Milestone_post_init(fields, uuid_id) ==
    LET self == [DataclassInit("Milestone", uuid_id, fields) EXCEPT !.start_date = None]
    IN  IF IsNone(self.end_date) THEN Raised("ValueError")
        ELSE Returned(self)

(* SmartGoal(...): __post_init__ validates the fields *)
SmartGoal_post_init(fields, uuid_id) ==
    LET self == DataclassInit("SmartGoal", uuid_id, fields)
    IN  IF BlankStr(self.measurement_unit) THEN Raised("ValueError")
        ELSE IF IsNone(self.measurement_target) \/ Val(self.measurement_target) <= 0
            THEN Raised("ValueError")
        ELSE IF IsNone(self.start_date) \/ IsNone(self.end_date) THEN Raised("ValueError")
        ELSE IF Val(self.start_date) >= Val(self.end_date) THEN Raised("ValueError")
        ELSE IF BlankStr(self.how_goal_is_relevant) THEN Raised("ValueError")
        ELSE IF BlankText(self.how_goal_is_actionable) THEN Raised("ValueError")
        ELSE Returned(self)

(* The arguments the constructors are called with *)
OptStatements == {None, Some(<<>>), Some(<<" ">>), Some(<<"A">>)}

OptStatementTexts == {None, Some(Text("empty", JMissing, JMissing)), Some(Text("blank", JMissing, JMissing)), HintsA}

OptTargets == {None, Some(0), Some(-1), Some(5)}

GoalFields ==
    [title : {Some(<<>>), Some(<<"A">>)},
     measurement_unit : OptStatements,
     measurement_target : OptTargets,
     start_date : OptTimes,
     end_date : OptTimes,
     how_goal_is_relevant : OptStatements,
     how_goal_is_actionable : OptStatementTexts]

(* A goal is constructed once, at the time now of the clock; the object    *)
(* made is kept in goals                                                   *)
InitGoals ==
    /\ actions = <<>>
    /\ goals = <<>>
    /\ matches = <<>>
    /\ ret = NoCall
    /\ db = NoDatabase

Construct(op, fields, now, result) ==
    /\ ret' = [op |-> op, fields |-> fields, now |-> now, raised |-> result.raised]
    /\ goals' = IF result.raised = "none" THEN Append(goals, Val(result.value)) ELSE goals
    /\ UNCHANGED <<db, actions, matches>>

CallGoalInit ==
    /\ ret = NoCall
    /\ \E fields \in GoalFields, now \in Times :
           Construct("Goal.__init__", fields, now, Goal_init(fields))

CallSmartGoalInit ==
    /\ ret = NoCall
    /\ \E fields \in GoalFields, now \in Times :
           Construct("SmartGoal.__init__", fields, now, SmartGoal_init(fields, now))

CallGoalDataclass ==
    /\ ret = NoCall
    /\ \E fields \in GoalFields, now \in Times :
           Construct("Goal", fields, now, Goal_dataclass(fields, Len(goals) + 1))

CallMilestone ==
    /\ ret = NoCall
    /\ \E fields \in GoalFields, now \in Times :
           Construct("Milestone", fields, now, Milestone_post_init(fields, Len(goals) + 1))

CallSmartGoal ==
    /\ ret = NoCall
    /\ \E fields \in GoalFields, now \in Times :
           Construct("SmartGoal", fields, now, SmartGoal_post_init(fields, Len(goals) + 1))

NextGoals ==
    \/ CallGoalInit
    \/ CallSmartGoalInit
    \/ CallGoalDataclass
    \/ CallMilestone
    \/ CallSmartGoal

SpecGoals == InitGoals /\ [][NextGoals]_vars

-----------------------------------------------------------------------------
(* ActionGoalInferenceService.infer_for_goal on the stored actions.  The   *)
(* goal is given by its position in goals, the overrides are optionals.    *)

(* start_date and target_date after the defaults from the goal are taken   *)
WindowOf(goal, start_date, target_date) ==
    [start_date |-> IF IsNone(start_date) THEN goals[goal].start_date ELSE start_date,
     target_date |-> IF IsNone(target_date) THEN goals[goal].end_date ELSE target_date]

HasWindow(window) == ~IsNone(window.start_date) /\ ~IsNone(window.target_date)

(* `a.log_time and start_date <= a.log_time <= target_date` *)
InWindow(action, window) ==
    /\ ~IsNone(action.log_time)
    /\ Val(window.start_date) <= Val(action.log_time)
    /\ Val(action.log_time) <= Val(window.target_date)

(* The positions in actions of relevant_actions *)
RelevantActions(window) ==
    LET all_actions == [i \in 1..Len(actions) |-> i]
        Relevant(i) == InWindow(actions[i], window)
    IN  IF HasWindow(window) THEN SelectSeq(all_actions, Relevant) ELSE all_actions

infer_for_goal(goal, start_date, target_date) ==
    LET window == WindowOf(goal, start_date, target_date)
        relevant == RelevantActions(window)
        found == infer_matches([k \in 1..Len(relevant) |-> actions[relevant[k]]],
                               <<goals[goal]>>, HasWindow(window))
    IN  [k \in 1..Len(found) |->
            [found[k] EXCEPT !.action = relevant[found[k].action], !.goal = goal]]

(* The stored actions and the goal of infer_for_goal *)
StoredActions ==
    {Action(<<"A", "b">>, Some(2), Some(<< <<<<"A">>, 1>> >>)),
     Action(<<"A", "b">>, None, Some(<< <<<<"A">>, 2>> >>)),
     Action(<<"A", "b">>, Some(4), Some(<< <<<<"A">>, 2>> >>)),
     Action(<<"b">>, Some(3), Some(<< <<<<"A">>, 1>> >>))}

ReportGoals ==
    {Goal("Goal", Some(<<"A">>), None, None, None),
     Goal("Goal", Some(<<"A">>), Some(1), Some(3), HintsA),
     Goal("SmartGoal", Some(<<"A">>), Some(1), Some(3), HintsA),
     Goal("SmartGoal", Some(<<"A">>), Some(3), Some(4), HintsB)}

InitReport ==
    /\ actions \in ListsUpTo(StoredActions, MaxActions)
    /\ goals \in {<<g>> : g \in ReportGoals}
    /\ matches = <<>>
    /\ ret = NoCall
    /\ db = NoDatabase

CallInferForGoal ==
    /\ \E goal \in 1..Len(goals), start_date \in OptTimes, target_date \in OptTimes :
           /\ matches' = infer_for_goal(goal, start_date, target_date)
           /\ ret' = [op |-> "infer_for_goal", goal |-> goal,
                      start_date |-> start_date, target_date |-> target_date]
    /\ UNCHANGED <<db, actions, goals>>

NextReport == CallInferForGoal

SpecReport == InitReport /\ [][NextReport]_vars

-----------------------------------------------------------------------------
(* Action.is_valid.  An action with its timing data is the record of the   *)
(* action with the optionals start_time and duration_minutes.              *)

TimedAction(action, start_time, duration_minutes) ==
    action @@ [start_time |-> start_time, duration_minutes |-> duration_minutes]

(* `not self.duration_minutes`: None or 0.0 *)
NoDuration(action) == IsNone(action.duration_minutes) \/ Val(action.duration_minutes) = 0

(* Some value of the measurements is <= 0 *)
SomeValueNotPositive(action) ==
    /\ ~NoMeasurements(action)
    /\ \E i \in 1..Len(Val(action.measurement_units_by_amount)) :
           Val(action.measurement_units_by_amount)[i][2] <= 0

is_valid(action) ==
    IF IsNone(action.log_time) THEN FALSE
    ELSE IF SomeValueNotPositive(action) THEN FALSE
    ELSE IF ~IsNone(action.start_time) /\ NoDuration(action) THEN FALSE
    ELSE TRUE

(* The measurements and durations of the actions validated *)
ValidatedMeasurements ==
    {None, Some(<<>>)}
    \cup {Some(<< <<<<"A">>, n>> >>) : n \in {-1, 0, 1}}
    \cup {Some(<< <<<<"A">>, n>>, <<<<"b">>, k>> >>) : n \in {0, 1}, k \in {-1, 2}}

OptDurations == {None, Some(0), Some(-1), Some(30)}

ValidatedActions ==
    {TimedAction(Action(<<"A">>, log_time, measurements), start_time, duration_minutes) :
        log_time \in OptTimes, measurements \in ValidatedMeasurements,
        start_time \in OptTimes, duration_minutes \in OptDurations}

InitValid ==
    /\ actions \in {<<a>> : a \in ValidatedActions}
    /\ goals = <<>>
    /\ matches = <<>>
    /\ ret = NoCall
    /\ db = NoDatabase

CallIsValid ==
    /\ \E action \in 1..Len(actions) :
           ret' = [op |-> "is_valid", action |-> action, value |-> is_valid(actions[action])]
    /\ UNCHANGED <<db, actions, goals, matches>>

NextValid == CallIsValid

SpecValid == InitValid /\ [][NextValid]_vars

-----------------------------------------------------------------------------
(* The relationship store over two stored actions and two stored goals.    *)
(* The table takes at most MaxRows rows over its life, and                 *)
(* store_relationships at most MaxBatch relationships at a time.           *)

MaxRows == 3

MaxBatch == 2

StoredGoals ==
    <<Goal("Goal", Some(<<"A">>), None, None, None),
      Goal("SmartGoal", Some(<<"A">>), Some(1), Some(3), HintsA)>>

(* Relationships between entities with their ids; the action of the last   *)
(* one has the id 0                                                        *)
StoreRelationships ==
    {ActionGoalMatch(1, 1, Some(5), "auto_inferred", ConfidenceAutoInferred),
     ActionGoalMatch(1, 1, Some(5), "user_confirmed", FullConfidence),
     ActionGoalMatch(2, 1, Some(5), "auto_inferred", ConfidenceAutoInferred),
     ActionGoalMatch(0, 1, Some(5), "auto_inferred", ConfidenceAutoInferred)}

ManualContribution == 7

UserOverride == <<"u">>

InitStore ==
    /\ actions = <<LoggedAction, LoggedAction>>
    /\ goals = StoredGoals
    /\ matches = <<>>
    /\ ret = NoCall
    /\ db \in {Database(unique_pairs) : unique_pairs \in BOOLEAN}

(* The call returns result: the database is left as the call leaves it     *)
StoreCall(op, arguments, result) ==
    /\ result.db.lastrowid <= MaxRows
    /\ db' = result.db
    /\ ret' = [op |-> op, arguments |-> arguments, raised |-> result.raised, value |-> result.value]
    /\ UNCHANGED <<actions, goals, matches>>

CallStoreRelationships ==
    \E relationships \in ListsUpTo(StoreRelationships, MaxBatch) :
        LET result == store_relationships(db, relationships)
        IN  StoreCall("store_relationships", <<Len(relationships)>>,
                      [result EXCEPT !.value = Some(@)])

(* The pairs (action_id, goal_id) the calls are made with: the ids of      *)
(* stored entities, and for create_manual_match also the id of no action   *)
StorePairs == {<<1, 1>>, <<2, 1>>, <<1, 2>>}

ManualPairs == {<<1, 1>>, <<1, 2>>, <<Len(actions) + 1, 1>>}

CallStorageCreateManualMatch ==
    \E pair \in ManualPairs :
        StoreCall("create_manual_match", pair,
                  storage_create_manual_match(db, pair[1], pair[2], ManualContribution, UserOverride))

CallConfirmAutoMatch ==
    \E pair \in StorePairs :
        StoreCall("confirm_auto_match", pair, confirm_auto_match(db, pair[1], pair[2]))

CallRemoveMatch ==
    \E pair \in StorePairs :
        StoreCall("remove_match", pair, remove_match(db, pair[1], pair[2]))

CallInvalidateAutoInferred ==
    \E action_id \in {None} \cup {Some(i) : i \in 1..Len(actions)} :
        StoreCall("invalidate_auto_inferred", action_id, invalidate_auto_inferred(db, action_id))

NextStore ==
    \/ CallStoreRelationships
    \/ CallStorageCreateManualMatch
    \/ CallConfirmAutoMatch
    \/ CallRemoveMatch
    \/ CallInvalidateAutoInferred

SpecStore == InitStore /\ [][NextStore]_vars

-----------------------------------------------------------------------------
(* The action log: an action is logged and the progress of all goals is    *)
(* recomputed from the whole log with infer_matches followed by            *)
(* aggregate_all_goals, as the interfaces do when they load their data.    *)

LogActions ==
    {Action(<<"A">>, Some(2), Some(<< <<<<"A">>, 1>> >>)),
     Action(<<"A", "b">>, Some(4), Some(<< <<<<"A">>, 2>> >>)),
     Action(<<"A">>, None, Some(<< <<<<"A">>, 2>>, <<<<"b">>, 1>> >>)),
     Action(<<"A">>, Some(2), Some(<< <<<<"A">>, -1>> >>)),
     Action(<<"b">>, Some(2), None)}

LogGoals ==
    {DataclassGoal("Goal", 1, Some(<<"A">>), Some(2), None, None, None),
     DataclassGoal("Goal", 2, Some(<<"A">>), Some(3), Some(1), Some(3), HintsA),
     DataclassGoal("Goal", 3, Some(<<"b">>), None, None, None, HintsB),
     DataclassGoal("SmartGoal", 4, Some(<<"A">>), Some(2), Some(1), Some(3), HintsA)}

(* all_matches and all_progress for the log all_actions *)
Recomputed(op, all_actions, require_period_match) ==
    LET all_matches == infer_matches(all_actions, goals, require_period_match)
    IN  [op |-> op, require_period_match |-> require_period_match,
         all_matches |-> all_matches,
         value |-> aggregate_all_goals([i \in 1..Len(goals) |-> i], all_matches)]

InitLog ==
    /\ actions \in ListsUpTo(LogActions, MaxActions - 1)
    /\ goals \in ListsUpTo(LogGoals, MaxGoals)
    /\ \E require_period_match \in BOOLEAN :
           ret = Recomputed("load_data", actions, require_period_match)
    /\ matches = ret.all_matches
    /\ db = NoDatabase

CallLogAction ==
    /\ Len(actions) < MaxActions
    /\ \E action \in LogActions :
           /\ actions' = Append(actions, action)
           /\ ret' = Recomputed("log_action", actions', ret.require_period_match)
           /\ matches' = ret'.all_matches
    /\ UNCHANGED <<db, goals>>

NextLog == CallLogAction

SpecLog == InitLog /\ [][NextLog]_vars

-----------------------------------------------------------------------------
(* Properties of matches_with_how_goal_is_actionable in strict mode *)

CalledHow == ret.op = "matches_with_how_goal_is_actionable"

TheAction == actions[ret.action]

TheGoal == goals[ret.goal]

(* The goal's text parses, with a non-empty units list and a non-empty     *)
(* keywords list                                                           *)
HasHints(goal) ==
    /\ ~IsNone(goal.how_goal_is_actionable)
    /\ Val(goal.how_goal_is_actionable).kind = "object"
    /\ ~ParseActionability(Val(goal.how_goal_is_actionable)).raised
    /\ ParseActionability(Val(goal.how_goal_is_actionable)).allowed_units # <<>>
    /\ ParseActionability(Val(goal.how_goal_is_actionable)).required_keywords # <<>>

UnitsOf(goal) == ParseActionability(Val(goal.how_goal_is_actionable)).allowed_units

KeywordsOf(goal) == ParseActionability(Val(goal.how_goal_is_actionable)).required_keywords

EntriesOf(action) ==
    IF IsNone(action.measurement_units_by_amount) THEN <<>>
    ELSE Val(action.measurement_units_by_amount)

(* The positions of the measurement keys that equal an allowed unit *)
ExactUnitKeys(action, goal) ==
    {i \in 1..Len(EntriesOf(action)) :
        \E u \in 1..Len(UnitsOf(goal)) : Lower(EntriesOf(action)[i][1]) = UnitsOf(goal)[u]}

LabelHasKeyword(action, goal) ==
    \E k \in 1..Len(KeywordsOf(goal)) :
        Contains(Lower(action.common_name), KeywordsOf(goal)[k])

Least(S) == CHOOSE i \in S : \A k \in S : i <= k

(* C1: when the goal's text parses with non-empty units and keywords and   *)
(* the lowercased label of the action contains none of the normalized      *)
(* keywords, matches_with_how_goal_is_actionable returns (False, None),    *)
(* also when a measurement key equals an allowed unit.                     *)
C1_NoKeywordNoMatch ==
    (CalledHow /\ HasHints(TheGoal) /\ ~LabelHasKeyword(TheAction, TheGoal))
        => ret.value = NoMatch

C1_Witness ==
    /\ CalledHow
    /\ HasHints(TheGoal)
    /\ ~LabelHasKeyword(TheAction, TheGoal)
    /\ TheAction.common_name # <<>>
    /\ ExactUnitKeys(TheAction, TheGoal) # {}
    /\ ret.value = NoMatch

(* C2: in strict mode the result is (True, c) exactly when some            *)
(* measurement key, lowercased, equals an allowed unit and the lowercased  *)
(* label contains a normalized keyword, c being the amount of the first    *)
(* such key in mapping order; otherwise it is (False, None).               *)
C2_StrictMatching ==
    (CalledHow /\ HasHints(TheGoal)) =>
        ret.value =
            IF ExactUnitKeys(TheAction, TheGoal) # {} /\ LabelHasKeyword(TheAction, TheGoal)
            THEN [matched |-> TRUE,
                  contribution |->
                      Some(EntriesOf(TheAction)[Least(ExactUnitKeys(TheAction, TheGoal))][2])]
            ELSE NoMatch

-----------------------------------------------------------------------------
(* Properties of the fallback to unit-only matching *)

ArrayOfStrings(v) == v.t = "array" /\ AllStrings(v.items)

AllBlank(items) == \A i \in 1..Len(items) : Strip(items[i].s) = <<>>

(* The goal's text is absent, is not JSON, is JSON of another shape than   *)
(* {units: list of strings, keywords: list of strings}, or has a units or  *)
(* keywords list with no entry left after trimming                         *)
Degenerate(goal) ==
    \/ IsNone(goal.how_goal_is_actionable)
    \/ LET text == Val(goal.how_goal_is_actionable)
       IN  \/ text.kind \in {"empty", "invalid"}
           \/ text.kind # "object"
           \/ ~ArrayOfStrings(text.units)
           \/ ~ArrayOfStrings(text.keywords)
           \/ text.units.items = <<>>
           \/ AllBlank(text.keywords.items)

(* C7: for a goal whose text is absent, is not valid JSON, has the wrong   *)
(* shape or has an empty units or keywords list,                           *)
(* matches_with_how_goal_is_actionable returns the matched flag and the    *)
(* contribution of matches_on_unit for the same action and goal.           *)
C7_DegradesToUnitOnly ==
    (CalledHow /\ Degenerate(TheGoal)) =>
        /\ ret.value.matched = matches_on_unit(TheAction, TheGoal).matched
        /\ ret.value.contribution = matches_on_unit(TheAction, TheGoal).value

(* lowercase, spaces to underscores *)
NormalizedUnit(s) == Replace(Lower(s), " ", <<"_">>)

KeysContainingUnit(action, goal) ==
    {i \in 1..Len(EntriesOf(action)) :
        Contains(NormalizedUnit(EntriesOf(action)[i][1]),
                 NormalizedUnit(Val(goal.measurement_unit)))}

(* C8: matches_on_unit returns (True, key, amount) for the first key of    *)
(* the mapping whose lowercased, space-to-underscore-normalized form       *)
(* contains the goal's unit, normalized the same way, and                  *)
(* (False, None, None) when no key does, when the action has no            *)
(* measurements or when the goal has no unit.                              *)
C8_UnitOnlyMatching ==
    ret.op = "matches_on_unit" =>
        ret.value =
            IF EntriesOf(TheAction) = <<>> \/ Falsy(TheGoal.measurement_unit)
               \/ KeysContainingUnit(TheAction, TheGoal) = {}
            THEN [matched |-> FALSE, key |-> None, value |-> None]
            ELSE LET e == EntriesOf(TheAction)[Least(KeysContainingUnit(TheAction, TheGoal))]
                 IN  [matched |-> TRUE, key |-> Some(e[1]), value |-> Some(e[2])]

-----------------------------------------------------------------------------
(* Properties of matches_on_period *)

CalledPeriod == ret.op = "matches_on_period"

(* C5: for a goal of any variant with a start date and a target date and   *)
(* an action with a log time, matches_on_period is true exactly when       *)
(* start_date <= log_time <= target date.                                  *)
C5_PeriodInclusive ==
    (/\ CalledPeriod
     /\ ~IsNone(TheAction.log_time)
     /\ ~IsNone(TheGoal.start_date)
     /\ ~IsNone(TheGoal.end_date))
        => (ret.value <=> /\ Val(TheGoal.start_date) <= Val(TheAction.log_time)
                          /\ Val(TheAction.log_time) <= Val(TheGoal.end_date))

(* C6: matches_on_period is false for an action with no log time, whatever *)
(* the goal, and true for an action with a log time when the goal has no   *)
(* start date.                                                             *)
C6_PeriodDefaults ==
    CalledPeriod =>
        /\ IsNone(TheAction.log_time) => ret.value = FALSE
        /\ (~IsNone(TheAction.log_time) /\ IsNone(TheGoal.start_date)) => ret.value = TRUE

C6_Witness ==
    /\ CalledPeriod
    /\ IsNone(TheAction.log_time)
    /\ IsNone(TheGoal.start_date)
    /\ ret.value = FALSE

-----------------------------------------------------------------------------
(* Properties of infer_matches *)

CalledInfer == ret.op = "infer_matches"

Pairs == (1..Len(actions)) \X (1..Len(goals))

(* The positions in the returned list of the matches of action i to goal j *)
MatchesOf(i, j) == {k \in 1..Len(matches) : matches[k].action = i /\ matches[k].goal = j}

(* Every predicate infer_matches is asked to apply passes for the pair *)
Passes(i, j) ==
    /\ ret.require_period_match => matches_on_period(actions[i], goals[j])
    /\ matches_with_how_goal_is_actionable(actions[i], goals[j]).matched

(* C3: infer_matches emits exactly one match for each (action, goal) pair  *)
(* of the cartesian product for which the actionability predicate passes   *)
(* and, when require_period_match is true, the period predicate passes;    *)
(* it emits no match for any other pair, and each match carries the        *)
(* contribution the actionability predicate returned.                      *)
C3_InferExactlyThePassingPairs ==
    CalledInfer =>
        /\ \A k \in 1..Len(matches) : <<matches[k].action, matches[k].goal>> \in Pairs
        /\ \A p \in Pairs :
               /\ Cardinality(MatchesOf(p[1], p[2])) = IF Passes(p[1], p[2]) THEN 1 ELSE 0
               /\ \A k \in MatchesOf(p[1], p[2]) :
                      matches[k].contribution =
                          matches_with_how_goal_is_actionable(actions[p[1]], goals[p[2]]).contribution
        /\ ~ret.require_period_match =>
               \A p \in Pairs :
                   MatchesOf(p[1], p[2]) # {}
                       <=> matches_with_how_goal_is_actionable(actions[p[1]], goals[p[2]]).matched

(* A call without the period requirement that emits a match for a pair     *)
(* failing the period predicate and none for another pair of the product   *)
C3_Witness ==
    /\ CalledInfer
    /\ ~ret.require_period_match
    /\ \E p \in Pairs :
           /\ MatchesOf(p[1], p[2]) # {}
           /\ ~matches_on_period(actions[p[1]], goals[p[2]])
           /\ ~IsNone(actions[p[1]].log_time)
    /\ \E p \in Pairs : MatchesOf(p[1], p[2]) = {}

(* C4: infer_matches emits no match whose action has no log time, for      *)
(* either value of require_period_match.                                   *)
C4_NoLogTimeNoMatch ==
    CalledInfer =>
        \A k \in 1..Len(matches) : ~IsNone(actions[matches[k].action].log_time)

(* C9: every match infer_matches returns has the method 'auto_inferred'    *)
(* and the confidence 0.9, which lies in [0.0, 1.0].                       *)
C9_AutoInferredConfidence ==
    CalledInfer =>
        \A k \in 1..Len(matches) :
            /\ matches[k].assignment_method = "auto_inferred"
            /\ matches[k].confidence = ConfidenceAutoInferred
            /\ 0 <= matches[k].confidence
            /\ matches[k].confidence <= FullConfidence

C9_Witness ==
    /\ CalledInfer
    /\ Len(matches) >= 2
    /\ \E k \in 1..Len(matches) : ~matches_on_period(actions[matches[k].action], goals[matches[k].goal])
    /\ \E k \in 1..Len(matches) : IsNone(goals[matches[k].goal].how_goal_is_actionable)

-----------------------------------------------------------------------------
(* Properties of filter_ambiguous_matches *)

CalledFilter == ret.op = "filter_ambiguous_matches"

(* sub can be obtained from list by deleting members: order is kept *)
RECURSIVE IsSubsequence(_, _)
IsSubsequence(sub, list) ==
    IF sub = <<>> THEN TRUE
    ELSE IF list = <<>> THEN FALSE
    ELSE IF Head(sub) = Head(list) THEN IsSubsequence(Tail(sub), Tail(list))
    ELSE IsSubsequence(sub, Tail(list))

(* C10: filter_ambiguous_matches partitions the list: confident holds the  *)
(* matches with confidence >= threshold and ambiguous those with           *)
(* confidence < threshold, each in input order, every input match is in    *)
(* exactly one of them, and the two lengths add up to the input length.    *)
C10_FilterPartitions ==
    CalledFilter =>
        LET confident == ret.value.confident
            ambiguous == ret.value.ambiguous
            threshold == ret.confidence_threshold
        IN  /\ Len(confident) + Len(ambiguous) = Len(matches)
            /\ \A i \in 1..Len(confident) : confident[i].confidence >= threshold
            /\ \A i \in 1..Len(ambiguous) : ambiguous[i].confidence < threshold
            /\ IsSubsequence(confident, matches)
            /\ IsSubsequence(ambiguous, matches)
            /\ \A i \in 1..Len(matches) :
                   /\ matches[i].confidence >= threshold
                          => \E k \in 1..Len(confident) : confident[k] = matches[i]
                   /\ matches[i].confidence < threshold
                          => \E k \in 1..Len(ambiguous) : ambiguous[k] = matches[i]

(* A match whose confidence equals the threshold, kept as confident, next  *)
(* to an ambiguous one                                                     *)
C10_Witness ==
    /\ CalledFilter
    /\ ret.value.confident # <<>>
    /\ ret.value.ambiguous # <<>>
    /\ \E i \in 1..Len(matches) : matches[i].confidence = ret.confidence_threshold
    /\ ret.confidence_threshold = DefaultThreshold

-----------------------------------------------------------------------------
(* Properties of create_manual_match and confirm_suggested_match *)

CalledManual == ret.op = "create_manual_match"

CalledConfirm == ret.op = "confirm_suggested_match"

(* C11: create_manual_match always returns a match for the given action    *)
(* and goal with method manual and confidence 1.0; a contribution that is  *)
(* supplied, 0 included, is used as it is, and an omitted one becomes the  *)
(* amount matches_on_unit finds, or 0.0 when it finds none.                *)
C11_ManualMatch ==
    CalledManual =>
        LET found == matches_on_unit(TheAction, TheGoal)
        IN  /\ ret.value.action = ret.action
            /\ ret.value.goal = ret.goal
            /\ ret.value.assignment_method = "manual"
            /\ ret.value.confidence = FullConfidence
            /\ ~IsNone(ret.contribution) => ret.value.contribution = ret.contribution
            /\ (IsNone(ret.contribution) /\ found.matched)
                   => ret.value.contribution = found.value
            /\ (IsNone(ret.contribution) /\ ~found.matched)
                   => ret.value.contribution = Some(0)

(* A contribution of 0 supplied for an action whose measurement under the  *)
(* goal's unit is not 0                                                    *)
C11_Witness ==
    /\ CalledManual
    /\ ret.contribution = Some(0)
    /\ matches_on_unit(TheAction, TheGoal).matched
    /\ Val(matches_on_unit(TheAction, TheGoal).value) > 0
    /\ ret.value.contribution = Some(0)

(* C12: confirm_suggested_match keeps the action, the goal and the         *)
(* contribution of the match, sets the method to user_confirmed and the    *)
(* confidence to 1.0, and confirming the result again returns the same     *)
(* match.                                                                  *)
C12_ConfirmKeepsAndIsIdempotent ==
    CalledConfirm =>
        /\ ret.value.action = matches[ret.match].action
        /\ ret.value.goal = matches[ret.match].goal
        /\ ret.value.contribution = matches[ret.match].contribution
        /\ ret.value.assignment_method = "user_confirmed"
        /\ ret.value.confidence = FullConfidence
        /\ confirm_suggested_match(ret.value) = ret.value

(* An auto-inferred suggestion below full confidence, without a            *)
(* contribution, is confirmed                                              *)
C12_Witness ==
    /\ CalledConfirm
    /\ matches[ret.match].assignment_method = "auto_inferred"
    /\ matches[ret.match].confidence < FullConfidence
    /\ IsNone(matches[ret.match].contribution)
    /\ ret.value.confidence = FullConfidence

-----------------------------------------------------------------------------
(* Frame of the operations *)

(* C13: no operation changes what it is given: every step of infer_matches, *)
(* filter_ambiguous_matches, create_manual_match, confirm_suggested_match, *)
(* aggregate_goal_progress, aggregate_all_goals and get_progress_summary   *)
(* leaves the actions, the goals and the matches passed in as they were    *)
(* (infer_matches is given no matches: the caller keeps the list it        *)
(* returns); confirm_suggested_match leaves the method and the confidence  *)
(* of the original and returns another Match.                              *)
C13_InputsUnchanged ==
    [][/\ actions' = actions
       /\ goals' = goals
       /\ ret'.op # "infer_matches" => matches' = matches
       /\ ret'.op = "confirm_suggested_match" =>
              /\ matches'[ret'.match].assignment_method = matches[ret'.match].assignment_method
              /\ matches'[ret'.match].confidence = matches[ret'.match].confidence
              /\ ret'.value.assignment_method = "user_confirmed"
              /\ ret'.value.confidence = FullConfidence]_vars

(* An auto-inferred match has been confirmed and is still auto-inferred in *)
(* the caller's list, which holds two matches                              *)
C13_Witness ==
    /\ CalledConfirm
    /\ Len(matches) >= 2
    /\ matches[ret.match].assignment_method = "auto_inferred"
    /\ matches[ret.match].confidence = ConfidenceAutoInferred
    /\ ret.value.assignment_method = "user_confirmed"
    /\ ret.value # matches[ret.match]

-----------------------------------------------------------------------------
(* Properties of aggregate_goal_progress and of the Progress it returns *)

CalledProgress == ret.op = "aggregate_goal_progress"

(* The contributions of the first k matches of ms, null ones adding        *)
(* nothing                                                                 *)
RECURSIVE TotalOf(_, _)
TotalOf(ms, k) ==
    IF k = 0 THEN 0
    ELSE TotalOf(ms, k - 1)
         + (IF ~IsNone(ms[k].contribution) THEN Val(ms[k].contribution) ELSE 0)

(* C14: aggregate_goal_progress is a pure sum: total_progress is the sum   *)
(* over the matches of the contribution, or 0 where it is null, and        *)
(* matching_actions_count is the length of the match list, so a match      *)
(* with a null contribution is counted and adds nothing.                   *)
C14_PureSum ==
    CalledProgress =>
        /\ ret.value.total_progress = TotalOf(matches, Len(matches))
        /\ matching_actions_count(ret.value) = Len(matches)

(* Three matches of the goal, one of them with a null contribution *)
C14_Witness ==
    /\ CalledProgress
    /\ Len(matches) = 3
    /\ \A k \in 1..3 : matches[k].goal = ret.goal
    /\ IsNone(matches[2].contribution)
    /\ ret.value.total_progress = 11
    /\ matching_actions_count(ret.value) = 3

(* The match is of the goal the call was made for *)
OfTheGoal(m) == goals[m.goal] = goals[ret.goal]

(* C15: total_progress and matching_actions_count of aggregate_goal_       *)
(* progress take into account only the matches whose goal is the given     *)
(* goal, also when the list holds matches of another goal.                 *)
C15_OnlyMatchesOfTheGoal ==
    CalledProgress =>
        LET own == SelectSeq(matches, OfTheGoal)
        IN  /\ ret.value.total_progress = TotalOf(own, Len(own))
            /\ matching_actions_count(ret.value) = Len(own)

(* C16: is_complete is true exactly when total_progress >= target, and     *)
(* remaining is max(0, target - total_progress): never negative, never     *)
(* below the difference, and equal to 0 or to the difference.              *)
C16_CompleteAndRemaining ==
    CalledProgress =>
        LET p == ret.value
        IN  /\ is_complete(p) <=> p.total_progress >= p.target
            /\ remaining(p) >= 0
            /\ remaining(p) >= p.target - p.total_progress
            /\ remaining(p) = 0 \/ remaining(p) = p.target - p.total_progress

(* A total above the target: the difference is negative and remaining is 0 *)
C16_Witness ==
    /\ CalledProgress
    /\ ret.value.total_progress > ret.value.target
    /\ ret.value.target > 0
    /\ remaining(ret.value) = 0
    /\ is_complete(ret.value)

(* C17: a goal with an unset target gives target 0.0, and then every       *)
(* total >= 0 gives percent 0.0 and is_complete true; percent is 0.0 for   *)
(* every Progress whose target is <= 0.                                    *)
C17_UnsetTarget ==
    CalledProgress =>
        LET p == ret.value
        IN  /\ IsNone(TheGoal.measurement_target) =>
                   /\ p.target = 0
                   /\ p.total_progress >= 0 => (percent(p) = FZero /\ is_complete(p))
            /\ p.target <= 0 => percent(p) = FZero

(* An unset target with a positive total *)
C17_Witness ==
    /\ CalledProgress
    /\ IsNone(TheGoal.measurement_target)
    /\ ret.value.total_progress > 0
    /\ percent(ret.value) = FZero
    /\ is_complete(ret.value)

(* C18: is_overachieved is true exactly when target > 0 and                *)
(* 100 * total_progress > 110 * target; a total equal to a positive target *)
(* has percent exactly 100, is complete and is not overachieved; a total   *)
(* of exactly 110 percent of the target is not overachieved.               *)
C18_Overachieved ==
    CalledProgress =>
        LET p == ret.value
        IN  /\ is_overachieved(p)
                   <=> (p.target > 0 /\ 100 * p.total_progress > OverachievedPercent * p.target)
            /\ (p.target > 0 /\ p.total_progress = p.target) =>
                   /\ percent(p) = FloatOfInt(100)
                   /\ is_complete(p)
                   /\ ~is_overachieved(p)
            /\ (p.target > 0 /\ 100 * p.total_progress = OverachievedPercent * p.target)
                   => ~is_overachieved(p)

-----------------------------------------------------------------------------
(* Properties of aggregate_all_goals *)

CalledBatch == ret.op = "aggregate_all_goals"

(* The matches of the list whose goal is the goal at position g *)
MatchesOfGoal(g) ==
    LET IsOfGoal(m) == goals[m.goal] = goals[g]
    IN  SelectSeq(matches, IsOfGoal)

(* C19: aggregate_all_goals returns one Progress per goal of the input     *)
(* list, in input order; the i-th is aggregate_goal_progress of the i-th   *)
(* goal and the matches of the list whose goal it is, in their order; a    *)
(* goal without such a match has total_progress 0 and                      *)
(* matching_actions_count 0; matches of goals outside the list change      *)
(* nothing.                                                                *)
C19_OneProgressPerGoal ==
    CalledBatch =>
        /\ ~ret.value.raised
        /\ Len(ret.value.value) = Len(ret.goals)
        /\ \A i \in 1..Len(ret.goals) :
               /\ ret.value.value[i]
                      = aggregate_goal_progress(ret.goals[i], MatchesOfGoal(ret.goals[i]))
               /\ MatchesOfGoal(ret.goals[i]) = <<>> =>
                      /\ ret.value.value[i].total_progress = 0
                      /\ matching_actions_count(ret.value.value[i]) = 0

-----------------------------------------------------------------------------
(* Properties of get_progress_summary *)

CalledSummary == ret.op = "get_progress_summary"

(* The number of matches held by the first k records *)
RECURSIVE CountsOf(_, _)
CountsOf(ps, k) == IF k = 0 THEN 0 ELSE CountsOf(ps, k - 1) + Len(ps[k].matches)

(* C20: get_progress_summary is a pure reduction: total_goals is the       *)
(* length of the list, complete_goals the number of records with           *)
(* is_complete true, in_progress_goals the number with is_complete false,  *)
(* the two adding up to total_goals, avg_completion_percent the mean of    *)
(* the percents and total_actions_matched the sum of the                   *)
(* matching_actions_counts; for the empty list every field is 0.           *)
C20_SummaryIsReduction ==
    CalledSummary =>
        LET ps == ret.all_progress
            s == ret.value
        IN  /\ s.total_goals = Len(ps)
            /\ s.complete_goals = Cardinality({i \in 1..Len(ps) : is_complete(ps[i])})
            /\ s.in_progress_goals = Cardinality({i \in 1..Len(ps) : ~is_complete(ps[i])})
            /\ s.complete_goals + s.in_progress_goals = s.total_goals
            /\ s.total_actions_matched = CountsOf(ps, Len(ps))
            /\ ps # <<>> =>
                   s.avg_completion_percent = FDivSmall(SumPercent(ps, Len(ps)), Len(ps))
            /\ ps = <<>> =>
                   /\ s.avg_completion_percent = FZero
                   /\ s.total_goals = 0
                   /\ s.complete_goals = 0
                   /\ s.in_progress_goals = 0
                   /\ s.total_actions_matched = 0

(* Two records, one complete and one in progress, with matches, whose      *)
(* percents are 100 and 50: the mean is 75                                 *)
C20_Witness ==
    /\ CalledSummary
    /\ Len(ret.all_progress) = 2
    /\ ret.value.complete_goals = 1
    /\ ret.value.in_progress_goals = 1
    /\ ret.value.total_actions_matched = 3
    /\ percent(ret.all_progress[1]) = FloatOfInt(100)
    /\ percent(ret.all_progress[2]) = FloatOfInt(50)
    /\ ret.value.avg_completion_percent = FloatOfInt(75)

-----------------------------------------------------------------------------
(* Totality of aggregate_all_goals *)

(* C21: aggregate_all_goals returns a result without raising for every     *)
(* list of well-formed goals of any variant (Goal, SmartGoal, Milestone)   *)
(* and every list of matches over those goals                              *)
C21_AggregatorTotal ==
    CalledBatch =>
        /\ ~ret.value.raised
        /\ Len(ret.value.value) = Len(ret.goals)

-----------------------------------------------------------------------------
(* Properties of the construction of goals *)

CalledSmartGoal == ret.op \in {"SmartGoal.__init__", "SmartGoal"}

(* The conditions on the arguments of a SmartGoal at the time now *)
SmartFields(fields, now) ==
    /\ ~BlankStr(fields.measurement_unit)
    /\ ~IsNone(fields.measurement_target)
    /\ Val(fields.measurement_target) > 0
    /\ ~IsNone(fields.start_date)
    /\ ~IsNone(fields.end_date)
    /\ Val(fields.start_date) < Val(fields.end_date)
    /\ Val(fields.end_date) > now
    /\ ~BlankStr(fields.how_goal_is_relevant)
    /\ ~BlankText(fields.how_goal_is_actionable)

(* C22: constructing a SmartGoal succeeds if and only if unit and target   *)
(* are present with target > 0, both dates are present with start before   *)
(* the target date, the target date is in the future, and the relevance    *)
(* and actionability statements are not empty; in every other case it      *)
(* fails with a validation error and no goal object is produced            *)
C22_SmartGoalValidation ==
    CalledSmartGoal =>
        IF SmartFields(ret.fields, ret.now)
        THEN /\ ret.raised = "none"
             /\ Len(goals) = 1
             /\ goals[1].cls = "SmartGoal"
        ELSE /\ ret.raised = "ValueError"
             /\ goals = <<>>

(* C24: every goal object that can be constructed (Goal, Milestone or      *)
(* SmartGoal) has either both a start date and a target date or neither    *)
C24_BothDatesOrNeither ==
    \A i \in 1..Len(goals) : IsNone(goals[i].start_date) <=> IsNone(goals[i].end_date)

-----------------------------------------------------------------------------
(* Properties of infer_for_goal *)

CalledInferForGoal == ret.op = "infer_for_goal"

(* C25: infer_for_goal called with a start and a target override returns   *)
(* a match for every stored action whose log time lies inside the override *)
(* window and that passes the actionability predicate for the goal, also   *)
(* when the log time lies outside the goal's own dates, and for no other   *)
(* action                                                                  *)
C25_OverrideWindow ==
    CalledInferForGoal /\ ~IsNone(ret.start_date) /\ ~IsNone(ret.target_date) =>
        \A i \in 1..Len(actions) :
            (\E k \in 1..Len(matches) : matches[k].action = i /\ matches[k].goal = ret.goal)
                <=> /\ InWindow(actions[i], [start_date |-> ret.start_date,
                                             target_date |-> ret.target_date])
                    /\ matches_with_how_goal_is_actionable(actions[i], goals[ret.goal]).matched

-----------------------------------------------------------------------------
(* Properties of Action.is_valid *)

CalledIsValid == ret.op = "is_valid"

(* C23: is_valid returns true if and only if the action has a log time,    *)
(* every amount of its measurements (when present) is strictly positive,   *)
(* and a duration is present whenever a start time is present              *)
C23_IsValid ==
    CalledIsValid =>
        LET action == actions[ret.action]
            measurements == action.measurement_units_by_amount
        IN  ret.value
                <=> /\ ~IsNone(action.log_time)
                    /\ ~IsNone(measurements) =>
                           \A i \in 1..Len(Val(measurements)) : Val(measurements)[i][2] > 0
                    /\ ~IsNone(action.start_time) => ~IsNone(action.duration_minutes)

-----------------------------------------------------------------------------
(* Properties of the relationship store *)

Table == db.action_goal_progress

(* The rows invalidate_auto_inferred(action_id) is to remove *)
Invalidated(row, action_id) ==
    /\ row.match_method = "auto_inferred"
    /\ IsNone(action_id) \/ row.action_id = Val(action_id)

(* C26: invalidate_auto_inferred(action_id) removes exactly the rows with  *)
(* method auto_inferred (of the given action when action_id is given),     *)
(* leaves every manual and user_confirmed row unchanged, and returns the   *)
(* number of rows removed, 0 when there is none, the table being unchanged *)
C26_InvalidateFrame ==
    [][ret'.op = "invalidate_auto_inferred" =>
          LET Stays(row) == ~Invalidated(row, ret'.arguments)
              Goes(row) == Invalidated(row, ret'.arguments)
          IN  /\ ret'.raised = "none"
              /\ Table' = SelectSeq(Table, Stays)
              /\ ret'.value = Some(Len(SelectSeq(Table, Goes)))
              /\ Val(ret'.value) = Len(Table) - Len(Table')
              /\ Val(ret'.value) = 0 => db' = db]_vars

(* invalidate_auto_inferred(1) has removed one auto_inferred row of action *)
(* 1 and left an auto_inferred row of action 2, a manual row and a         *)
(* user_confirmed row                                                      *)
C26_Witness ==
    /\ ret.op = "invalidate_auto_inferred"
    /\ ret.arguments = Some(1)
    /\ ret.value = Some(1)
    /\ \E i \in 1..Len(db.archive) :
           /\ db.archive[i].reason = "invalidated_cache"
           /\ db.archive[i].record_data.action_id = 1
    /\ \E i \in 1..Len(Table) : Table[i].match_method = "auto_inferred" /\ Table[i].action_id = 2
    /\ \E i \in 1..Len(Table) : Table[i].match_method \in {"manual", "user_confirmed"}

(* C30: after any sequence of operations the table holds at most one row   *)
(* for each pair (action_id, goal_id)                                      *)
C30_OneRowPerPair ==
    \A i, j \in 1..Len(Table) :
        Table[i].action_id = Table[j].action_id /\ Table[i].goal_id = Table[j].goal_id => i = j

-----------------------------------------------------------------------------
(* Consistency of the derived properties of a GoalProgress *)

(* C28: for every total and target, is_overachieved implies is_complete,   *)
(* and remaining is 0 exactly when is_complete is true                     *)
C28_FlagsConsistent ==
    CalledProgress =>
        LET p == ret.value
        IN  /\ is_overachieved(p) => is_complete(p)
            /\ remaining(p) = 0 <=> is_complete(p)

(* A record which is overachieved, by a total of 12 for a target of 10,    *)
(* hence complete with nothing remaining                                   *)
C28_Witness ==
    /\ CalledProgress
    /\ ret.value.target = 10
    /\ ret.value.total_progress = 12
    /\ is_overachieved(ret.value)
    /\ is_complete(ret.value)
    /\ remaining(ret.value) = 0

(* A record with its total equal to its target: complete, nothing          *)
(* remaining, not overachieved                                             *)
C28_WitnessAtTarget ==
    /\ CalledProgress
    /\ ret.value.target = 5
    /\ ret.value.total_progress = 5
    /\ ~is_overachieved(ret.value)
    /\ is_complete(ret.value)
    /\ remaining(ret.value) = 0

-----------------------------------------------------------------------------
(* Keywords that are empty after normalization *)

(* The goal's text parses and has an allowed unit *)
ParsesWithUnits(goal) ==
    /\ ~IsNone(goal.how_goal_is_actionable)
    /\ Val(goal.how_goal_is_actionable).kind = "object"
    /\ ~ParseActionability(Val(goal.how_goal_is_actionable)).raised
    /\ UnitsOf(goal) # <<>>

(* The keywords of the goal's text that are not empty once normalized *)
NonEmptyKeywords(goal) ==
    LET items == Iterate(Val(goal.how_goal_is_actionable).keywords).items
    IN  {NormalizeKeyword(items[i].s) : i \in 1..Len(items)} \ {<<>>}

(* C29: a keyword that is empty after normalization (blank, or made of '*' *)
(* only) never satisfies the keyword check: every action that matches in   *)
(* strict mode has a label containing a non-empty normalized keyword, and  *)
(* a text whose keywords are all empty after normalization falls back to   *)
(* unit-only matching                                                      *)
C29_EmptyKeywordNeverMatches ==
    (CalledHow /\ ParsesWithUnits(TheGoal)) =>
        IF NonEmptyKeywords(TheGoal) = {}
        THEN ret.value = UnitOnly(TheAction, TheGoal)
        ELSE ret.value.matched =>
                 \E keyword \in NonEmptyKeywords(TheGoal) :
                     Contains(Lower(TheAction.common_name), keyword)

-----------------------------------------------------------------------------
(* Monotonicity of progress in the action log *)

(* Every measurement amount of the action is strictly positive *)
PositiveAmounts(action) == ~SomeValueNotPositive(action)

(* C27: for a fixed list of goals, appending an action whose measurement   *)
(* amounts are all strictly positive and recomputing with infer_matches    *)
(* followed by aggregate_all_goals never decreases the total_progress or   *)
(* the matching_actions_count of a goal and never turns its is_complete    *)
(* from true to false, whenever aggregate_all_goals returns                *)
C27_MonotoneInLog ==
    [][(/\ ret'.op = "log_action"
        /\ PositiveAmounts(actions'[Len(actions')])
        /\ ~ret.value.raised)
          => /\ goals' = goals
             /\ ~ret'.value.raised
             /\ \A i \in 1..Len(goals) :
                    LET before == ret.value.value[i]
                        after == ret'.value.value[i]
                    IN  /\ after.total_progress >= before.total_progress
                        /\ matching_actions_count(after) >= matching_actions_count(before)
                        /\ is_complete(before) => is_complete(after)]_vars

(* The second action logged has positive amounts, matches the goal and     *)
(* brings its total from 1 to 3, its count from 1 to 2, and completes it   *)
C27_Witness ==
    /\ ret.op = "log_action"
    /\ Len(actions) = 2
    /\ PositiveAmounts(actions[2])
    /\ ~ret.value.raised
    /\ Len(goals) >= 1
    /\ \E k \in 1..Len(matches) : matches[k].action = 1 /\ matches[k].goal = 1
                                     /\ matches[k].contribution = Some(1)
    /\ \E k \in 1..Len(matches) : matches[k].action = 2 /\ matches[k].goal = 1
                                     /\ matches[k].contribution = Some(2)
    /\ ret.value.value[1].total_progress = 3
    /\ matching_actions_count(ret.value.value[1]) = 2
    /\ ret.value.value[1].target \in {2, 3}
    /\ is_complete(ret.value.value[1])

====
